---- MODULE Spec2Model ----
(***************************************************************************)
(* Model of the cost and usage aggregation engine of src/server.py:        *)
(* the credential resolver (get_aws_service_boto3_client), the usage log   *)
(* normalizer (get_bedrock_logs), the aggregating tools                    *)
(* (get_bedrock_daily_usage_stats, get_bedrock_hourly_usage_stats) and the *)
(* billing tools (get_ec2_spend_last_day, get_detailed_breakdown_by_day).  *)
(*                                                                         *)
(* One tool invocation is a sequence of steps, one per call to an external *)
(* service (STS, boto3 client construction, CloudWatch Logs paginator,     *)
(* Cost Explorer) and one per turn of the loops of the daily breakdown;    *)
(* the outcome of each external call is chosen by the environment.         *)
(***************************************************************************)
EXTENDS Integers, Sequences, FiniteSets, TLC

(***************************************************************************)
(* Bounds of the model.                                                    *)
(***************************************************************************)
MaxInvocations == 2     \* tool invocations in one behaviour
MaxPages == 2           \* pages the paginator yields in one fetch
MaxPageLen == 2         \* events in one page
MaxEvents == 3          \* events the paginator yields in one fetch, over all pages
MaxDays == 2            \* daily periods in one Cost Explorer response
MaxIdLen == 4           \* characters of a model identifier

(***************************************************************************)
(* Values.                                                                 *)
(***************************************************************************)
None == "None"                          \* Python's None, for string-valued slots
OwnAccount == "111111111111"            \* the account sts get_caller_identity returns
OtherAccount == "222222222222"
EmptyAccount == ""
Accounts == {None, EmptyAccount, OwnAccount, OtherAccount}
Regions == {"us-east-1", "eu-west-1"}
Ambient == "ambient"                    \* no explicit credential passed to boto3.client

CROSS_ACCOUNT_ROLE_NAME == "BedrockCrossAccount2"

Tools == {"get_bedrock_daily_usage_stats", "get_bedrock_hourly_usage_stats",
          "get_ec2_spend_last_day", "get_detailed_breakdown_by_day"}
LogTools == {"get_bedrock_daily_usage_stats", "get_bedrock_hourly_usage_stats"}

\* service name each tool passes to get_aws_service_boto3_client
ServiceOf(t) == IF t \in LogTools THEN "logs" ELSE "ce"

\* the temporary credentials sts assume_role can hand out (the environment's choice)
CredentialTriples ==
    { [AccessKeyId |-> "AK1", SecretAccessKey |-> "SK1", SessionToken |-> "TK1"],
      [AccessKeyId |-> "AK2", SecretAccessKey |-> "SK2", SessionToken |-> "TK2"] }
NoCredentials == [AccessKeyId |-> None, SecretAccessKey |-> None, SessionToken |-> None]

NoClient == [service |-> None, region_name |-> None, aws_access_key_id |-> None,
             aws_secret_access_key |-> None, aws_session_token |-> None]

\* bookkeeping on a client: the invocation that constructed it and the serial of the
\* STS credentials it carries (0: ambient identity)
NoTag == [madeIn |-> 0, serial |-> 0]
NoUse == [client |-> NoClient, tag |-> NoTag]

NoArn == <<>>

NoDf == [t |-> "unset", rows |-> <<>>]            \* get_bedrock_logs has not returned
NoneDf == [t |-> "None", rows |-> <<>>]           \* get_bedrock_logs returned None
NoReport == [kind |-> "unset", sections |-> <<>>]

\* no Cost Explorer response received yet
NoResponse == [t |-> "unset", hasResultsByTime |-> FALSE, ResultsByTime |-> <<>>]
\* the billing tool has not returned
NotReturned == [t |-> "unset", value |-> <<>>]
\* get_ec2_spend_last_day has printed no total
NothingPrinted == [kind |-> "nothing", amount |-> 0, currency |-> None]
\* no identifier has been shortened
NoLabel == <<"unset">>

VARIABLES
    pc,              \* position of the running tool invocation ("idle": none running)
    tool,            \* the tool invoked
    aws_account_id,  \* params.aws_account_id
    region,          \* params.region
    inv,             \* number of invocations started so far
    this_account,    \* local of get_aws_service_boto3_client (line 90)
    credentials,     \* local of get_aws_service_boto3_client (line 110)
    credSerial,      \* serial STS gave to the credentials held in `credentials`
    client,          \* the tool's client / ce_client local
    clientTag,       \* bookkeeping on `client` (see NoTag)
    outcome,         \* how the invocation ended: "none" (running), "report",
                     \* "nodata_text", "error_text", "response", "None", "raised"
    failedAt,        \* the resolver call that failed in this invocation, or "none"
    nIdentity,       \* get_caller_identity calls of this invocation
    nAssume,         \* assume_role calls of this invocation
    nClient,         \* boto3.client(service, ...) constructions of this invocation
    nProvider,       \* log-provider and billing-provider calls of this invocation
    assumeArn,       \* RoleArn of the last assume_role call of this invocation
    issued,          \* credentials STS has issued so far (serial of the last one)
    issuedAtStart,   \* value of issued when this invocation started
    returnedCreds,   \* what the last assume_role of this invocation returned
    usedClient,      \* client (and its tag) the last provider call was made with
    response,        \* local of both billing tools: what get_cost_and_usage returned
    date,            \* index in response['ResultsByTime'] of the loop of line 791
    regionsLeft,     \* regions of that date the loop of line 806 has not finished
    services_df,     \* local of that loop (lines 811-817)
    output_buffer,   \* local of get_detailed_breakdown_by_day (line 760)
    drills,          \* the get_instance_type_breakdown calls of this invocation
    queryFailed,     \* the tool's first get_cost_and_usage call raised
    ec2_printed,     \* the total line get_ec2_spend_last_day printed
    returned,        \* what the billing tool returned
    nPages,          \* pages the paginator has yielded in this fetch
    delivered,       \* the events of those pages, in order
    filtered_logs,   \* local of get_bedrock_logs (line 167)
    df,              \* what get_bedrock_logs returned
    diagnostic,      \* the line get_bedrock_logs printed when it returned None
    report,          \* what the usage tool returned
    model_id,        \* argument of the lambda of lines 402-404
    short_id,        \* what it returned
    short_again      \* what it returned for short_id

resolverVars == <<this_account, credentials, credSerial, client, clientTag, failedAt,
                  nIdentity, nAssume, nClient, assumeArn, issued, returnedCreds>>
paramVars == <<tool, aws_account_id, region, inv, issuedAtStart>>
billingVars == <<response, date, regionsLeft, services_df, output_buffer, drills,
                 queryFailed, ec2_printed, returned>>
labelVars == <<model_id, short_id, short_again>>
logVars == <<nPages, delivered, filtered_logs, df, diagnostic, report>>

vars == <<pc, tool, aws_account_id, region, inv, this_account, credentials,
          credSerial, client, clientTag, outcome, failedAt, nIdentity, nAssume,
          nClient, nProvider, assumeArn,
          issued, issuedAtStart, returnedCreds, usedClient, response, date,
          regionsLeft, services_df, output_buffer, drills, queryFailed, ec2_printed,
          returned, nPages, delivered, filtered_logs, df, diagnostic, report,
          model_id, short_id, short_again>>

(***************************************************************************)
(* get_aws_service_boto3_client, lines 75-134.                             *)
(***************************************************************************)

\* line 91: the request is for a different account
NeedsAssume_noneOnly(acct, this) == acct # None
NeedsAssume(acct, this) == acct # None /\ this # acct

\* line 100: f"arn:aws:iam::{aws_account_id}:role/{account_b_role_name}"
RoleArn(acct, role) == <<"arn:aws:iam::", acct, ":role/", role>>

\* lines 113-119: client with the assumed role's credentials
DelegatedClient_swapped(service, region_name, creds) ==
    [service |-> service, region_name |-> region_name,
     aws_access_key_id |-> creds.AccessKeyId,
     aws_secret_access_key |-> creds.SessionToken,
     aws_session_token |-> creds.SecretAccessKey]
DelegatedClient(service, region_name, creds) ==
    [service |-> service, region_name |-> region_name,
     aws_access_key_id |-> creds.AccessKeyId,
     aws_secret_access_key |-> creds.SecretAccessKey,
     aws_session_token |-> creds.SessionToken]

\* lines 124-127: client with the ambient identity
LocalClient(service, region_name) ==
    [service |-> service, region_name |-> region_name,
     aws_access_key_id |-> Ambient,
     aws_secret_access_key |-> Ambient,
     aws_session_token |-> Ambient]

\* first provider step of each tool, after its client is resolved
FirstProviderStep(t) ==
    IF t \in LogTools THEN "paginate"
    ELSE IF t = "get_ec2_spend_last_day" THEN "ec2_query" ELSE "breakdown_query"

\* the exception leaves get_aws_service_boto3_client (line 134) and, the call being
\* outside every try block (lines 157, 654, 751), the tool as well
ResolverRaises(which) ==
    /\ failedAt' = which
    /\ outcome' = "raised"
    /\ pc' = "idle"

\* a tool is invoked with its parameter object; its frame starts with no locals bound
Invoke_cached ==
    /\ pc = "idle"
    /\ inv < MaxInvocations
    /\ \E t \in Tools, a \in Accounts, r \in Regions :
          /\ tool' = t
          /\ aws_account_id' = a
          /\ region' = r
          /\ IF client # NoClient /\ client.service = ServiceOf(t)
                THEN pc' = FirstProviderStep(t) /\ UNCHANGED <<client, clientTag>>
                ELSE pc' = "sts_identity" /\ client' = NoClient /\ clientTag' = NoTag
    /\ inv' = inv + 1
    /\ issuedAtStart' = issued
    /\ this_account' = None
    /\ credentials' = NoCredentials
    /\ credSerial' = 0
    /\ outcome' = "none"
    /\ failedAt' = "none"
    /\ nIdentity' = 0 /\ nAssume' = 0 /\ nClient' = 0 /\ nProvider' = 0
    /\ assumeArn' = NoArn
    /\ returnedCreds' = NoCredentials
    /\ usedClient' = NoUse
    /\ response' = NoResponse /\ date' = 0 /\ regionsLeft' = <<>>
    /\ services_df' = <<>> /\ output_buffer' = <<>> /\ drills' = <<>>
    /\ queryFailed' = FALSE /\ ec2_printed' = NothingPrinted
    /\ returned' = NotReturned
    /\ nPages' = 0
    /\ delivered' = <<>>
    /\ filtered_logs' = <<>>
    /\ df' = NoDf
    /\ diagnostic' = "none"
    /\ report' = NoReport
    /\ UNCHANGED <<issued, labelVars>>
Invoke ==
    /\ pc = "idle"
    /\ inv < MaxInvocations
    /\ \E t \in Tools, a \in Accounts, r \in Regions :
          /\ tool' = t
          /\ aws_account_id' = a
          /\ region' = r
    /\ inv' = inv + 1
    /\ issuedAtStart' = issued
    /\ pc' = "sts_identity"
    /\ this_account' = None
    /\ credentials' = NoCredentials
    /\ credSerial' = 0
    /\ client' = NoClient
    /\ clientTag' = NoTag
    /\ outcome' = "none"
    /\ failedAt' = "none"
    /\ nIdentity' = 0 /\ nAssume' = 0 /\ nClient' = 0 /\ nProvider' = 0
    /\ assumeArn' = NoArn
    /\ returnedCreds' = NoCredentials
    /\ usedClient' = NoUse
    /\ response' = NoResponse /\ date' = 0 /\ regionsLeft' = <<>>
    /\ services_df' = <<>> /\ output_buffer' = <<>> /\ drills' = <<>>
    /\ queryFailed' = FALSE /\ ec2_printed' = NothingPrinted
    /\ returned' = NotReturned
    /\ nPages' = 0
    /\ delivered' = <<>>
    /\ filtered_logs' = <<>>
    /\ df' = NoDf
    /\ diagnostic' = "none"
    /\ report' = NoReport
    /\ UNCHANGED <<issued, labelVars>>

\* line 90: boto3.client('sts').get_caller_identity()['Account'] succeeds
IdentityOk ==
    /\ pc = "sts_identity"
    /\ this_account' = OwnAccount
    /\ nIdentity' = nIdentity + 1
    /\ pc' = IF NeedsAssume(aws_account_id, OwnAccount) THEN "sts_identity2"
                                                        ELSE "make_client"
    /\ UNCHANGED <<paramVars, labelVars, billingVars, logVars, credentials, credSerial,
                   client, clientTag, outcome, failedAt, nAssume, nClient, nProvider,
                   assumeArn, issued, returnedCreds, usedClient>>

\* lines 95-96: the second identity lookup of the cross-account branch succeeds
Identity2Ok ==
    /\ pc = "sts_identity2"
    /\ nIdentity' = nIdentity + 1
    /\ pc' = "assume_role"
    /\ UNCHANGED <<paramVars, labelVars, billingVars, logVars, this_account,
                   credentials, credSerial, client, clientTag, outcome, failedAt,
                   nAssume, nClient, nProvider, assumeArn, issued, returnedCreds,
                   usedClient>>

\* line 90 or 96 raises; lines 132-134 re-raise
IdentityFails_retry ==
    /\ pc \in {"sts_identity", "sts_identity2"}
    /\ nIdentity < 3
    /\ nIdentity' = nIdentity + 1
    /\ failedAt' = "identity"
    /\ UNCHANGED <<pc, paramVars, labelVars, billingVars, logVars, this_account,
                   credentials, credSerial, client, clientTag, outcome, nAssume,
                   nClient, nProvider, assumeArn, issued, returnedCreds, usedClient>>
IdentityFails ==
    /\ pc \in {"sts_identity", "sts_identity2"}
    /\ nIdentity' = nIdentity + 1
    /\ ResolverRaises("identity")
    /\ UNCHANGED <<paramVars, labelVars, billingVars, logVars, this_account,
                   credentials, credSerial, client, clientTag, nAssume, nClient,
                   nProvider, assumeArn, issued, returnedCreds, usedClient>>

\* lines 100-110: assume_role succeeds and returns temporary credentials
AssumeRoleOk ==
    /\ pc = "assume_role"
    /\ \E c \in CredentialTriples :
          /\ credentials' = c
          /\ returnedCreds' = c
    /\ assumeArn' = RoleArn(aws_account_id, CROSS_ACCOUNT_ROLE_NAME)
    /\ nAssume' = nAssume + 1
    /\ issued' = issued + 1
    /\ credSerial' = issued + 1
    /\ pc' = "make_client"
    /\ UNCHANGED <<paramVars, labelVars, billingVars, logVars, this_account, client,
                   clientTag, outcome, failedAt, nIdentity, nClient, nProvider,
                   usedClient>>

\* line 104 raises; lines 132-134 re-raise
AssumeRoleFails ==
    /\ pc = "assume_role"
    /\ assumeArn' = RoleArn(aws_account_id, CROSS_ACCOUNT_ROLE_NAME)
    /\ nAssume' = nAssume + 1
    /\ ResolverRaises("assume_role")
    /\ UNCHANGED <<paramVars, labelVars, billingVars, logVars, this_account,
                   credentials, credSerial, client, clientTag, nIdentity, nClient,
                   nProvider, issued, returnedCreds, usedClient>>

\* lines 113-122 (cross-account) or 124-130 (current account): the client is built
\* and returned to the tool
MakeClientOk ==
    /\ pc = "make_client"
    /\ client' = IF NeedsAssume(aws_account_id, this_account)
                   THEN DelegatedClient(ServiceOf(tool), region, credentials)
                   ELSE LocalClient(ServiceOf(tool), region)
    /\ clientTag' = [madeIn |-> inv, serial |-> credSerial]
    /\ nClient' = nClient + 1
    /\ pc' = FirstProviderStep(tool)
    /\ UNCHANGED <<paramVars, labelVars, billingVars, logVars, this_account,
                   credentials, credSerial, outcome, failedAt, nIdentity, nAssume,
                   nProvider, assumeArn, issued, returnedCreds, usedClient>>

\* boto3.client(service, ...) raises (line 113 or 124); lines 132-134 re-raise
MakeClientFails ==
    /\ pc = "make_client"
    /\ ResolverRaises("client")
    /\ UNCHANGED <<paramVars, labelVars, billingVars, logVars, this_account,
                   credentials, credSerial, client, clientTag, nIdentity, nAssume,
                   nClient, nProvider, assumeArn, issued, returnedCreds, usedClient>>

(***************************************************************************)
(* Log events, as the structured log provider delivers them.               *)
(*                                                                         *)
(* A JSON value that the code reads with dict.get is modelled with a tag:  *)
(* "absent" (the key is missing), "null" (JSON null), "int", "str", and    *)
(* for a nested section "dict" or "wrongtype" (a string, list or number    *)
(* where an object is expected).  Identifiers are sequences of characters. *)
(***************************************************************************)
TokInt(n) == [t |-> "int", v |-> n]
TokStr(n) == [t |-> "str", v |-> n]       \* the string of the digits of n
TokAbsent == [t |-> "absent", v |-> 0]
TokNull   == [t |-> "null", v |-> 0]
TokNone   == [t |-> "none", v |-> 0]      \* Python None held in a record

Ts(day, hour) == [t |-> "ts", date |-> day, hour |-> hour]
TsAbsent == [t |-> "absent", date |-> 0, hour |-> 0]
TsBad    == [t |-> "bad", date |-> 0, hour |-> 0]    \* a string pandas cannot parse
NaT      == [t |-> "NaT", date |-> 0, hour |-> 0]

NoneModel == <<"None">>                   \* Python None in the modelId slot

\* content items of an input message
Content(t, items) == [t |-> t, items |-> items]
Msg(t, role, content) == [t |-> t, role |-> role, content |-> content]
NoMessages == [t |-> "absent", items |-> <<>>]
TextMessages ==
    [t |-> "list",
     items |-> << Msg("dict", "user", Content("list", <<"textobj", "textobj">>)),
                  Msg("dict", "assistant", Content("str", <<>>)) >>]

InputSection(tok, messages) ==
    [t |-> "dict", inputTokenCount |-> tok,
     inputBodyJson |-> [t |-> IF messages.t = "absent" THEN "absent" ELSE "dict",
                        messages |-> messages]]
InputAbsent == [t |-> "absent", inputTokenCount |-> TokAbsent,
                inputBodyJson |-> [t |-> "absent", messages |-> NoMessages]]
InputWrongType == [InputAbsent EXCEPT !.t = "wrongtype"]
OutputSection(tok) == [t |-> "dict", outputTokenCount |-> tok]
Identity(arn) == [t |-> "dict", arn |-> arn]
IdentityAbsent == [t |-> "absent", arn |-> None]

\* a well-formed model invocation log event
LogEvent(ts, reg, model, identity, inTok, outTok, messages) ==
    [hasMessage |-> TRUE, json |-> "object", timestamp |-> ts, region |-> reg,
     modelId |-> model, identity |-> identity,
     input |-> InputSection(inTok, messages), output |-> OutputSection(outTok)]

ModelA == <<"a", ".", "m">>
ModelB == <<"b", "/", "m">>
UserA == "arn:aws:iam::111111111111:user/alice"
UserB == "arn:aws:iam::111111111111:role/batch"

EvA == LogEvent(Ts(1, 10), "us-east-1", ModelA, Identity(UserA),
                TokInt(3), TokInt(4), TextMessages)
EvB == LogEvent(Ts(1, 10), "us-east-1", ModelB, Identity(UserB),
                TokInt(1), TokInt(2), NoMessages)
EvNoUser == LogEvent(Ts(2, 11), "eu-west-1", ModelA, IdentityAbsent,
                TokInt(2), TokInt(2), NoMessages)
EvNoInTok == LogEvent(Ts(1, 10), "us-east-1", ModelA, Identity(UserA),
                TokAbsent, TokInt(5), NoMessages)
EvNoRegion == LogEvent(Ts(1, 10), None, ModelA, Identity(UserA),
                TokInt(1), TokInt(1), NoMessages)
EvNoKey == [EvA EXCEPT !.hasMessage = FALSE]
EvNotJson == [EvA EXCEPT !.json = "invalid"]
EvList == [EvA EXCEPT !.json = "nonobject"]
EvStrTok == LogEvent(Ts(1, 10), "us-east-1", ModelA, Identity(UserA),
                TokStr(7), TokInt(1), NoMessages)
EvBadInput == [EvA EXCEPT !.input = InputWrongType]

\* what the paginator may deliver in the aggregation specification
Events == {EvA, EvB, EvNoUser, EvNoInTok, EvNoRegion, EvNoKey, EvNotJson, EvList,
           EvStrTok, EvBadInput}
\* EvA with other shapes of input.inputBodyJson.messages
WithMessages(items) ==
    [EvA EXCEPT !.input = InputSection(TokInt(3), [t |-> "list", items |-> items])]
EvStrContent == WithMessages(<<Msg("dict", "user", Content("str", <<>>))>>)
EvStrItems == WithMessages(<<Msg("dict", "user", Content("list", <<"str", "str">>))>>)
EvNumItem == WithMessages(<<Msg("dict", "user", Content("list", <<"textobj", "num">>))>>)
EvNullItem == WithMessages(<<Msg("dict", "user", Content("list", <<"null">>))>>)
EvMsgNotObject == WithMessages(<<Msg("str", "none", Content("absent", <<>>))>>)

\* what it may deliver in the prompt specification: every required field present
PromptEvents == {EvA, EvB, EvStrContent, EvStrItems, EvNumItem, EvNullItem,
                 EvMsgNotObject}
\* what it may deliver in the tool-boundary specification
ToolEvents == {EvA, EvNoInTok, EvList}

(***************************************************************************)
(* get_bedrock_logs, lines 183-232: one event.                             *)
(***************************************************************************)

\* lines 201-207: one content item appended to prompt; TRUE when it raises
ItemRaises(item) ==
    CASE item = "textobj"    -> FALSE    \* {"text": "..."}: prompt += text + " "
      [] item = "emptyobj"   -> FALSE    \* dict without text: nothing appended
      [] item = "numtextobj" -> TRUE     \* {"text": 5}: int + str, TypeError
      [] item = "str"        -> FALSE    \* prompt += content
      [] item = "num"        -> TRUE     \* str += int, TypeError
      [] item = "null"       -> TRUE     \* str += None, TypeError
      [] OTHER               -> TRUE

\* lines 200-207: one message of input.inputBodyJson.messages; TRUE when it raises
MsgRaises(msg) ==
    IF msg.t # "dict" THEN TRUE                      \* msg.get: AttributeError
    ELSE IF msg.role # "user" THEN FALSE
    ELSE CASE msg.content.t = "absent" -> FALSE      \* msg.get("content") is falsy
           [] msg.content.t = "str"    -> FALSE      \* iterates the characters
           [] msg.content.t = "number" -> TRUE       \* for content in 5: TypeError
           [] msg.content.t = "list"   ->
                \E i \in 1..Len(msg.content.items) : ItemRaises(msg.content.items[i])
           [] OTHER -> TRUE

\* lines 193-209: extraction of the prompt; TRUE when it raises
PromptRaises(input) ==
    IF input.t = "wrongtype" THEN TRUE               \* input.get: AttributeError
    ELSE IF input.t = "absent" THEN FALSE
    ELSE IF input.inputBodyJson.t = "wrongtype" THEN TRUE
    ELSE IF input.inputBodyJson.t = "absent" THEN FALSE
    ELSE LET messages == input.inputBodyJson.messages IN
         CASE messages.t = "absent"    -> FALSE
           [] messages.t = "wrongtype" -> TRUE       \* for msg in 5: TypeError
           [] messages.t = "list"      ->
                \E i \in 1..Len(messages.items) : MsgRaises(messages.items[i])
           [] OTHER -> TRUE

\* section.get(key): None when the key is missing or null
GetTok(tok) == IF tok.t \in {"absent", "null"} THEN TokNone ELSE tok

\* section.get(key, 0): 0 when the key is missing, None when it is null
GetTokOrZero(tok) == IF tok.t = "absent" THEN TokInt(0)
                     ELSE IF tok.t = "null" THEN TokNone ELSE tok

\* lines 223-224: a + b raises TypeError unless both are numbers or both strings
AddRaises(a, b) == ~(a.t = b.t /\ a.t \in {"int", "str"})
\* int + int adds; str + str concatenates (kept as the pair of digit strings' value)
Add(a, b) == IF a.t = "int" THEN TokInt(a.v + b.v) ELSE TokStr(a.v * 10 + b.v)

\* the token count of a section the code reads with message.get(name, {})
SectionTok(section, tok) == IF section.t = "absent" THEN TokAbsent ELSE tok

\* lines 213-226: the record built from a parsed message
FilteredEvent(e) ==
    [timestamp |-> e.timestamp,
     region |-> e.region,
     modelId |-> e.modelId,
     userId |-> IF e.identity.t = "absent" THEN None ELSE e.identity.arn,
     inputTokens |-> GetTok(SectionTok(e.input, e.input.inputTokenCount)),
     completionTokens |-> GetTok(SectionTok(e.output, e.output.outputTokenCount)),
     totalTokens |-> Add(GetTokOrZero(SectionTok(e.input, e.input.inputTokenCount)),
                         GetTokOrZero(SectionTok(e.output, e.output.outputTokenCount)))]

\* lines 185-232: "skip" (the inner except clauses continue), "abort" (any other
\* exception leaves the loops for line 248) or "record" (line 228 appends)
EventStatus(e) ==
    IF ~e.hasMessage THEN "skip"                     \* event["message"]: KeyError
    ELSE IF e.json = "invalid" THEN "skip"           \* json.JSONDecodeError
    ELSE IF e.json = "nonobject" THEN "abort"        \* message.get: AttributeError
    ELSE IF PromptRaises(e.input) THEN "abort"
    ELSE IF e.identity.t = "wrongtype" THEN "abort"
    ELSE IF e.output.t = "wrongtype" THEN "abort"
    ELSE IF AddRaises(GetTokOrZero(SectionTok(e.input, e.input.inputTokenCount)),
                      GetTokOrZero(SectionTok(e.output, e.output.outputTokenCount)))
         THEN "abort"                                \* TypeError
    ELSE "record"

\* lines 184-232 over the events of one page: the records appended, and whether an
\* exception ended the fetch
RECURSIVE ProcessEvents(_, _)
ProcessEvents(events, logs) ==
    IF events = <<>> THEN [logs |-> logs, aborted |-> FALSE]
    ELSE LET e == Head(events)
             st == EventStatus(e)
         IN  CASE st = "abort"  -> [logs |-> logs, aborted |-> TRUE]
               [] st = "skip"   -> ProcessEvents(Tail(events), logs)
               [] st = "record" ->
                    ProcessEvents(Tail(events), Append(logs, FilteredEvent(e)))

(***************************************************************************)
(* get_bedrock_logs, lines 234-250: the value returned.                    *)
(***************************************************************************)

\* line 237: pd.to_datetime maps None to NaT and raises on an unparseable string
ToDatetimeRaises(logs) == \E i \in 1..Len(logs) : logs[i].timestamp.t = "bad"
ToDatetime(ts) == IF ts.t = "absent" THEN NaT ELSE ts

\* the exception leaves get_bedrock_logs
ErrorResult_raises == [t |-> "raised", rows |-> <<>>]

\* lines 248-250: the handler of every exception but not-found returns None
ErrorResult == NoneDf

\* lines 235-241, and 248-250 when to_datetime raises
MakeDf(logs) ==
    IF logs = <<>> THEN NoneDf
    ELSE IF ToDatetimeRaises(logs) THEN ErrorResult
    ELSE [t |-> "df",
          rows |-> [i \in 1..Len(logs) |->
                      [logs[i] EXCEPT !.timestamp = ToDatetime(logs[i].timestamp)]]]

(***************************************************************************)
(* pandas groupby / agg as the usage tools call them (default arguments:   *)
(* dropna=True drops every row with a null group key; count, sum, mean,    *)
(* max and median skip null values).                                       *)
(***************************************************************************)
NaN == -1                                 \* token counts are never negative

\* the value of a grouping dimension in a row
DimVal(r, dim) ==
    CASE dim = "date"     -> <<r.timestamp.date>>                   \* line 335, 476
      [] dim = "datetime" -> <<r.timestamp.date, r.timestamp.hour>> \* line 478
      [] dim = "hour"     -> <<r.timestamp.hour>>                   \* line 619
      [] dim = "region"   -> <<r.region>>
      [] dim = "userId"   -> <<r.userId>>
      [] dim = "modelId"  -> r.modelId

DimNull(r, dim) ==
    CASE dim \in {"date", "datetime", "hour"} -> r.timestamp.t = "NaT"
      [] dim = "region"  -> r.region = None
      [] dim = "userId"  -> r.userId = None
      [] dim = "modelId" -> r.modelId = NoneModel

KeyOf(r, dims) == [i \in 1..Len(dims) |-> DimVal(r, dims[i])]
KeyNull(r, dims) == \E i \in 1..Len(dims) : DimNull(r, dims[i])

\* the rows of one group
GroupRows(rows, dims, k) ==
    SelectSeq(rows, LAMBDA r : ~KeyNull(r, dims) /\ KeyOf(r, dims) = k)

GroupKeys(rows, dims) ==
    {KeyOf(rows[i], dims) : i \in {j \in 1..Len(rows) : ~KeyNull(rows[j], dims)}}

\* the non-null values of a token column
RECURSIVE ColValues(_, _)
ColValues(rows, col) ==
    IF rows = <<>> THEN <<>>
    ELSE LET x == Head(rows)[col]
             rest == ColValues(Tail(rows), col)
         IN  IF x.t = "int" THEN <<x.v>> \o rest ELSE rest

RECURSIVE SeqSum(_)
SeqSum(xs) == IF xs = <<>> THEN 0 ELSE Head(xs) + SeqSum(Tail(xs))

SeqMax(xs) == IF xs = <<>> THEN NaN
              ELSE CHOOSE m \in {xs[i] : i \in 1..Len(xs)} :
                     \A i \in 1..Len(xs) : xs[i] <= m

\* the k-th smallest element of xs
Kth(xs, k) ==
    CHOOSE v \in {xs[i] : i \in 1..Len(xs)} :
        /\ Cardinality({i \in 1..Len(xs) : xs[i] < v}) < k
        /\ Cardinality({i \in 1..Len(xs) : xs[i] <= v}) >= k

\* one aggregation function over the non-null values of a column; a mean is the pair
\* <<sum, count>> and a median the pair of the middle values it averages
AggFn(xs, fn) ==
    CASE fn = "count"  -> Len(xs)
      [] fn = "sum"    -> SeqSum(xs)
      [] fn = "mean"   -> IF xs = <<>> THEN <<NaN, NaN>> ELSE <<SeqSum(xs), Len(xs)>>
      [] fn = "max"    -> SeqMax(xs)
      [] fn = "median" -> IF xs = <<>> THEN <<NaN, NaN>>
                          ELSE <<Kth(xs, (Len(xs) + 1) \div 2),
                                 Kth(xs, (Len(xs) + 2) \div 2)>>

\* a column is of dtype object when it holds a string or nothing but None; mean and
\* median of such a column raise TypeError
ColObject(rows, col) ==
    \/ \E i \in 1..Len(rows) : rows[i][col].t = "str"
    \/ \A i \in 1..Len(rows) : rows[i][col].t # "int"

TokenCols == {"inputTokens", "completionTokens", "totalTokens"}
AggRaises(rows) == \E col \in TokenCols : ColObject(rows, col)

\* lines 403, 440, 523, 573, 610: the display form of a model identifier
\* str.split(ch): the pieces of s between the occurrences of ch, in order
RECURSIVE Split(_, _)
Split(s, ch) ==
    IF \A i \in 1..Len(s) : s[i] # ch THEN <<s>>
    ELSE LET i == CHOOSE k \in 1..Len(s) :
                     s[k] = ch /\ \A j \in 1..(k - 1) : s[j] # ch
         IN  <<SubSeq(s, 1, i - 1)>> \o Split(SubSeq(s, i + 1, Len(s)), ch)

\* the piece after the first '.', not the last
Shorten_second(model) ==
    LET pieces == IF \E i \in 1..Len(model) : model[i] = "."
                  THEN Split(model, ".") ELSE Split(model, "/")
    IN  IF Len(pieces) > 1 THEN pieces[2] ELSE pieces[1]

\* the '/' looked for first
Shorten_slashFirst(model) ==
    IF \E i \in 1..Len(model) : model[i] = "/"
    THEN Split(model, "/")[Len(Split(model, "/"))]
    ELSE Split(model, ".")[Len(Split(model, "."))]

\* lines 402-404: model.split('.')[-1] if '.' in model else model.split('/')[-1]
Shorten(model) ==
    IF \E i \in 1..Len(model) : model[i] = "."
    THEN Split(model, ".")[Len(Split(model, "."))]
    ELSE Split(model, "/")[Len(Split(model, "/"))]

\* lines 633-635: f"{hour:02d}:00 - {hour:02d}:59", as <<HH, 0, HH, 59>>
HourRange(k) == <<k[1], 0, k[1], 59>>

\* the key as displayed: fmt is "shorten" where the code applies the shortening to
\* the modelId column of the table, "hour_range" where it formats the hour of day
DisplayKey(k, dims, fmt) ==
    [i \in 1..Len(dims) |->
        IF fmt = "shorten" /\ dims[i] = "modelId" THEN Shorten(k[i])
        ELSE IF fmt = "hour_range" /\ dims[i] = "hour" THEN HourRange(k[i])
        ELSE k[i]]

\* with a NaT in the timestamp column dt.hour is a float column, and the format
\* code 02d of line 634 raises ValueError for a float
HourFormatRaises(rows) == \E i \in 1..Len(rows) : rows[i].timestamp.t = "NaT"

\* a set as a sequence, in an arbitrary fixed order (the row order of a table is
\* not represented)
RECURSIVE SetToSeq(_)
SetToSeq(S) == IF S = {} THEN <<>>
               ELSE LET x == CHOOSE y \in S : TRUE IN <<x>> \o SetToSeq(S \ {x})

\* df.groupby(dims).agg(aggs), columns flattened, index reset: one row per group;
\* aggs is the sequence of <<column, function>> pairs of the agg dictionary
GroupTable(name, rows, dims, aggs, fmt) ==
    LET keys == SetToSeq(GroupKeys(rows, dims))
    IN  [name |-> name, dims |-> dims, aggs |-> aggs, totals |-> <<>>,
         rows |-> [n \in 1..Len(keys) |->
                     [key |-> DisplayKey(keys[n], dims, fmt),
                      vals |-> [a \in 1..Len(aggs) |->
                                  AggFn(ColValues(GroupRows(rows, dims, keys[n]),
                                                  aggs[a][1]), aggs[a][2])]]]]

\* the column f"{col}_{fn}" of a table, as the sequence of its values
ColIndex(table, col, fn) ==
    CHOOSE a \in 1..Len(table.aggs) : table.aggs[a] = <<col, fn>>
Column(table, col, fn) ==
    [n \in 1..Len(table.rows) |-> table.rows[n].vals[ColIndex(table, col, fn)]]

\* lines 363-366 and 533-536: the totals of the summary statistics section
Totals(table) ==
    [name |-> "Summary Statistics", dims |-> <<>>, aggs |-> <<>>, rows |-> <<>>,
     totals |-> << SeqSum(Column(table, "inputTokens", "count")),
                   SeqSum(Column(table, "inputTokens", "sum")),
                   SeqSum(Column(table, "completionTokens", "sum")),
                   SeqSum(Column(table, "totalTokens", "sum")) >>]

\* the agg dictionaries of the source
DetailAggs ==
    << <<"inputTokens", "count">>, <<"inputTokens", "sum">>, <<"inputTokens", "mean">>,
       <<"inputTokens", "max">>, <<"inputTokens", "median">>,
       <<"completionTokens", "sum">>, <<"completionTokens", "mean">>,
       <<"completionTokens", "max">>, <<"completionTokens", "median">>,
       <<"totalTokens", "sum">>, <<"totalTokens", "mean">>,
       <<"totalTokens", "max">>, <<"totalTokens", "median">> >>
SummaryAggs ==
    << <<"inputTokens", "count">>, <<"inputTokens", "sum">>,
       <<"completionTokens", "sum">>, <<"totalTokens", "sum">> >>
MeanAggs ==
    << <<"inputTokens", "count">>, <<"inputTokens", "sum">>, <<"inputTokens", "mean">>,
       <<"completionTokens", "sum">>, <<"completionTokens", "mean">>,
       <<"totalTokens", "sum">>, <<"totalTokens", "mean">> >>
PatternAggs ==
    << <<"inputTokens", "count">>, <<"inputTokens", "sum">>, <<"totalTokens", "sum">> >>

\* the sections with the model summary ahead of the region summary
DailySections_modelFirst(rows) ==
    LET detail == GroupTable("Daily Region-wise -> Model-wise Analysis", rows,
                             <<"date", "region", "modelId">>, DetailAggs, "none")
    IN  << detail,
           Totals(detail),
           GroupTable("Model Summary", rows, <<"modelId">>, SummaryAggs, "shorten"),
           GroupTable("Region Summary", rows, <<"region">>, SummaryAggs, "none"),
           GroupTable("User Summary", rows, <<"userId">>, SummaryAggs, "none"),
           GroupTable("Region -> User -> Model Detailed Summary", rows,
                      <<"region", "userId", "modelId">>, MeanAggs, "shorten") >>

\* get_bedrock_daily_usage_stats, lines 337-443: the sections of the report, in the
\* order they are appended to result_parts
DailySections(rows) ==
    LET detail == GroupTable("Daily Region-wise -> Model-wise Analysis", rows,
                             <<"date", "region", "modelId">>, DetailAggs, "none")
    IN  << detail,
           Totals(detail),
           GroupTable("Region Summary", rows, <<"region">>, SummaryAggs, "none"),
           GroupTable("Model Summary", rows, <<"modelId">>, SummaryAggs, "shorten"),
           GroupTable("User Summary", rows, <<"userId">>, SummaryAggs, "none"),
           GroupTable("Region -> User -> Model Detailed Summary", rows,
                      <<"region", "userId", "modelId">>, MeanAggs, "shorten") >>

\* get_bedrock_hourly_usage_stats, lines 480-637
HourlySections(rows) ==
    LET hourly == GroupTable("Hourly Usage Analysis", rows, <<"datetime">>,
                             MeanAggs, "none")
    IN  << hourly,
           GroupTable("Hourly Region-wise -> Model-wise Analysis", rows,
                      <<"datetime", "region", "modelId">>, DetailAggs, "shorten"),
           Totals(hourly),
           GroupTable("Region Summary", rows, <<"region">>, SummaryAggs, "none"),
           GroupTable("Model Summary", rows, <<"modelId">>, SummaryAggs, "shorten"),
           GroupTable("User Summary", rows, <<"userId">>, SummaryAggs, "none"),
           GroupTable("Hourly Region -> User -> Model Detailed Summary", rows,
                      <<"datetime", "region", "userId", "modelId">>, MeanAggs, "shorten"),
           GroupTable("Hourly Usage Pattern Analysis", rows, <<"hour">>,
                      PatternAggs, "hour_range") >>

NoDataReport == [kind |-> "No usage data found for the specified period.",
                 sections |-> <<>>]
RaisedReport == [kind |-> "raised", sections |-> <<>>]

\* lines 322-449 and 463-642: what the usage tool returns for the value d that
\* get_bedrock_logs returned
\* the tool without lines 324-325 (464-465): the frame is grouped whatever it holds
UsageReport_noEmptyCheck(t, d) ==
    IF AggRaises(d.rows) THEN RaisedReport
    ELSE IF t = "get_bedrock_daily_usage_stats"
         THEN [kind |-> "daily", sections |-> DailySections(d.rows)]
    ELSE [kind |-> "hourly", sections |-> HourlySections(d.rows)]

UsageReport(t, d) ==
    IF d.t = "None" \/ d.rows = <<>> THEN NoDataReport
    ELSE IF AggRaises(d.rows) THEN RaisedReport
    ELSE IF t = "get_bedrock_daily_usage_stats"
         THEN [kind |-> "daily", sections |-> DailySections(d.rows)]
    ELSE IF HourFormatRaises(d.rows) THEN RaisedReport
    ELSE [kind |-> "hourly", sections |-> HourlySections(d.rows)]

(***************************************************************************)
(* get_bedrock_logs, lines 167-250, and the usage tool that called it.     *)
(***************************************************************************)
SeqsUpTo(E, n) == UNION {[1..k -> E] : k \in 0..n}

\* the pages the paginator can yield next: with an "events" list, or without the key
Pages(E, room) ==
    {[hasEvents |-> TRUE, events |-> es] : es \in SeqsUpTo(E, room)}
        \cup {[hasEvents |-> FALSE, events |-> <<>>]}

\* line 184: page.get("events", [])
PageEvents(page) == IF page.hasEvents THEN page.events ELSE <<>>

Min(a, b) == IF a < b THEN a ELSE b

\* the usage tool's result for the value get_bedrock_logs returned
OutcomeOf(rep) ==
    CASE rep.kind = "raised" -> "raised"
      [] rep.kind = NoDataReport.kind -> "nodata_text"
      [] OTHER -> "report"

\* get_bedrock_logs returns d (lines 238, 241, 247, 250); the tool finishes
FetchReturns(d, printed) ==
    /\ df' = d
    /\ diagnostic' = printed
    /\ report' = UsageReport(tool, d)
    /\ outcome' = OutcomeOf(UsageReport(tool, d))
    /\ pc' = "idle"

\* line 183: the paginator yields one more page; lines 184-232 process its events
NextPage(E) ==
    /\ pc = "paginate"
    /\ nPages < MaxPages
    /\ \E page \in Pages(E, Min(MaxPageLen, MaxEvents - Len(delivered))) :
         LET res == ProcessEvents(PageEvents(page), filtered_logs) IN
         /\ delivered' = delivered \o PageEvents(page)
         /\ filtered_logs' = res.logs
         /\ IF res.aborted
              THEN FetchReturns(ErrorResult, "Error retrieving logs: event")  \* 248-250
              ELSE UNCHANGED <<pc, df, diagnostic, report, outcome>>
    /\ nPages' = nPages + 1
    /\ nProvider' = nProvider + 1
    /\ usedClient' = [client |-> client, tag |-> clientTag]
    /\ UNCHANGED <<paramVars, labelVars, billingVars, resolverVars>>

\* line 240, or line 249 when to_datetime raises (the text after the colon stands
\* for str(e)); nothing is printed when a frame is returned
FinalDiagnostic(logs) ==
    IF logs = <<>> THEN "No logs found for the specified time period."
    ELSE IF ToDatetimeRaises(logs) THEN "Error retrieving logs: to_datetime"
    ELSE "none"

\* line 183: the paginator is exhausted; lines 235-241
PaginateExhausted ==
    /\ pc = "paginate"
    /\ FetchReturns(MakeDf(filtered_logs), FinalDiagnostic(filtered_logs))
    /\ UNCHANGED <<paramVars, labelVars, billingVars, resolverVars, nPages, delivered,
                   filtered_logs, nProvider, usedClient>>

\* the filter_log_events call raises ResourceNotFoundException; lines 243-247
PaginateNotFound ==
    /\ pc = "paginate"
    /\ nProvider' = nProvider + 1
    /\ usedClient' = [client |-> client, tag |-> clientTag]
    /\ FetchReturns(NoneDf, "Log group or stream not found")
    /\ UNCHANGED <<paramVars, labelVars, billingVars, resolverVars, nPages, delivered,
                   filtered_logs>>

\* the filter_log_events call raises anything else; lines 248-250
PaginateFails ==
    /\ pc = "paginate"
    /\ nProvider' = nProvider + 1
    /\ usedClient' = [client |-> client, tag |-> clientTag]
    /\ FetchReturns(ErrorResult, "Error retrieving logs: transport")
    /\ UNCHANGED <<paramVars, labelVars, billingVars, resolverVars, nPages, delivered,
                   filtered_logs>>

(***************************************************************************)
(* Cost Explorer responses.  An Amount is a decimal string the code parses *)
(* with float(); it is held here in thousandths of the currency unit, so   *)
(* that sums are exact and rounding to 2 decimals is a real operation.     *)
(***************************************************************************)
EC2Compute == "Amazon Elastic Compute Cloud - Compute"
SageMaker == "Amazon SageMaker"
S3 == "Amazon Simple Storage Service"
RDS == "Amazon Relational Database Service"
Lambda == "AWS Lambda"
DynamoDB == "Amazon DynamoDB"
CloudWatch == "AmazonCloudWatch"
Route53 == "Amazon Route 53"

\* line 836: s.startswith('Amazon Elastic Compute'), over the service names above
StartsWithElasticCompute(s) == s = EC2Compute

\* sorted(region_services.keys()), line 806: the regions of the model in string order
RegionOrder == <<"eu-west-1", "us-east-1">>

\* one element of time_data['Groups'] of the query grouped by REGION and SERVICE
Group(reg, service, amount) ==
    [Keys |-> <<reg, service>>, Amount |-> amount, Unit |-> "USD"]

RegionGroups(reg, services) ==
    [i \in 1..Len(services) |-> Group(reg, services[i][1], services[i][2])]

\* seven services, the compute service the sixth by cost; no cost is a whole
\* number of cents
SevenServices ==
    << <<DynamoDB, 6004>>, <<S3, 9004>>, <<EC2Compute, 14>>, <<Lambda, 7004>>,
       <<RDS, 8004>>, <<Route53, 4>>, <<CloudWatch, 5004>> >>
\* six services, whole cents, two of equal cost around the fifth place
SixServices ==
    << <<Lambda, 3000>>, <<EC2Compute, 6000>>, <<DynamoDB, 1000>>, <<S3, 5000>>,
       <<CloudWatch, 1000>>, <<RDS, 4000>> >>
\* SageMaker and the compute service together
ThreeServices == << <<S3, 1500>>, <<SageMaker, 2000>>, <<EC2Compute, 4>> >>
\* no service with a drill-down
TwoServices == << <<Lambda, 1004>>, <<S3, 2500>> >>

\* one element of response['ResultsByTime']; dates are numbered 1, 2, ... in
\* the order of the days of the queried period
TimeData(day, hasGroups, groups) ==
    [Start |-> day, hasGroups |-> hasGroups, Groups |-> groups]

DayNoGroupsKey(day) == TimeData(day, FALSE, <<>>)
DayNoGroups(day) == TimeData(day, TRUE, <<>>)
DaySeven(day) == TimeData(day, TRUE, RegionGroups("us-east-1", SevenServices))
DaySix(day) == TimeData(day, TRUE, RegionGroups("eu-west-1", SixServices))
DayTwoRegions(day) ==
    TimeData(day, TRUE, RegionGroups("us-east-1", TwoServices)
                           \o RegionGroups("eu-west-1", ThreeServices))

Days(day) == {DayNoGroupsKey(day), DayNoGroups(day), DaySeven(day), DaySix(day),
               DayTwoRegions(day)}

Response(results) ==
    [t |-> "response", hasResultsByTime |-> TRUE, ResultsByTime |-> results]
\* a response without the 'ResultsByTime' key
ResponseNoResults ==
    [t |-> "response", hasResultsByTime |-> FALSE, ResultsByTime |-> <<>>]

\* the responses of the query of lines 768-785 for a period of at most n days
BreakdownResponses(n) ==
    {ResponseNoResults} \cup
    UNION {{Response(r) : r \in {q \in [1..k -> UNION {Days(d) : d \in 1..k}] :
                                   \A i \in 1..k : q[i] \in Days(i)}} : k \in 0..n}

\* lines 795-803: region_services[region], as the (Service, Cost) rows of
\* services_df (lines 811-814): keys in insertion order, each with the value
\* assigned last
ServicesDf(groups, reg) ==
    LET mine == SelectSeq(groups, LAMBDA g : g.Keys[1] = reg)
        first == {i \in 1..Len(mine) :
                    \A j \in 1..(i - 1) : mine[j].Keys[2] # mine[i].Keys[2]}
        lastOf(i) == CHOOSE j \in 1..Len(mine) :
                        /\ mine[j].Keys[2] = mine[i].Keys[2]
                        /\ \A k \in (j + 1)..Len(mine) :
                              mine[k].Keys[2] # mine[i].Keys[2]
        idx == SelectSeq([i \in 1..Len(mine) |-> i], LAMBDA i : i \in first)
    IN  [n \in 1..Len(idx) |->
            [Service |-> mine[idx[n]].Keys[2], Cost |-> mine[lastOf(idx[n])].Amount]]

\* line 806: the regions of the groups, sorted
SortedRegions(groups) ==
    SelectSeq(RegionOrder,
              LAMBDA r : \E i \in 1..Len(groups) : groups[i].Keys[1] = r)

\* sort_values('Cost', ascending=False), lines 817 and 985: the orders the sort may
\* produce; rows of equal cost may come out in either order
RECURSIVE SortedByCost(_)
SortedByCost(rows) ==
    IF rows = {} THEN {<<>>}
    ELSE UNION {{<<x>> \o rest : rest \in SortedByCost(rows \ {x})} :
                  x \in {y \in rows : \A z \in rows : z.Cost <= y.Cost}}

SeqToSet(xs) == {xs[i] : i \in 1..Len(xs)}

\* round(2) at line 823 and '.2f' at line 828: the nearest whole number of cents,
\* a half going to the even neighbour
Round2(m) ==
    LET q == m \div 10
        r == m % 10
    IN  IF r < 5 THEN q * 10
        ELSE IF r > 5 THEN (q + 1) * 10
        ELSE IF q % 2 = 0 THEN q * 10 ELSE (q + 1) * 10

\* the last five rows, not the first
TopServices_last(sdf) == SubSeq(sdf, IF Len(sdf) < 5 THEN 1 ELSE Len(sdf) - 4, Len(sdf))

\* services_df.head(5), line 820
TopServices(sdf) == SubSeq(sdf, 1, IF Len(sdf) < 5 THEN Len(sdf) ELSE 5)

\* the sum from the seventh row on
OtherCost_fromSeventh(sdf) ==
    SeqSum([i \in 1..(Len(sdf) - 6) |-> sdf[i + 6].Cost])

\* services_df.iloc[5:]['Cost'].sum(), line 827
OtherCost(sdf) ==
    SeqSum([i \in 1..(Len(sdf) - 5) |-> sdf[i + 5].Cost])

\* one entry of output_buffer, with the day and the region of the block it is in
Item(kind, day, reg, body) == [kind |-> kind, date |-> day, reg |-> reg, body |-> body]

\* lines 823-828: the table of the top services and the line on the others
TableItems(day, reg, sdf, currency) ==
    LET top == TopServices(sdf)
        table == Item("table", day, reg,
                      [i \in 1..Len(top) |->
                          [Service |-> top[i].Service, Cost |-> Round2(top[i].Cost)]])
    IN  IF Len(sdf) > 5
        THEN <<table,
               Item("others", day, reg,
                    [count |-> Len(sdf) - 5, other_cost |-> OtherCost(sdf),
                     shown |-> Round2(OtherCost(sdf)), currency |-> currency])>>
        ELSE <<table>>

\* get_instance_type_breakdown, lines 931-988.  The groups of the first period of
\* its response: none, or two instance (usage) types
DrillGroups ==
    {<<>>, << [Keys |-> <<"t3.micro">>, Amount |-> 2004],
              [Keys |-> <<"m5.large">>, Amount |-> 4000] >>}

NoneFrame == [t |-> "None", column |-> None, rows |-> <<>>]

\* lines 962-988: None without groups, the frame sorted by cost otherwise
InstanceTypeBreakdown(groups, dimension_key) ==
    IF groups = <<>> THEN NoneFrame
    ELSE [t |-> "df",
          column |-> IF dimension_key = "INSTANCE_TYPE" THEN "Instance Type"
                     ELSE "Usage Type",
          rows |-> CHOOSE s \in SortedByCost({[Type |-> groups[i].Keys[1],
                                               Cost |-> groups[i].Amount] :
                                                 i \in 1..Len(groups)}) : TRUE]

\* an exception raised while a drill-down is retrieved or rendered
QueryRaised == [t |-> "raised", column |-> None, rows |-> <<>>]

\* lines 847-853, 870-877, 889-894: the heading and the table of a breakdown
BreakdownItem(title, day, reg, frame) ==
    Item("breakdown", day, reg,
         [title |-> title,
          rows |-> [i \in 1..Len(frame.rows) |->
                      [Type |-> frame.rows[i].Type,
                       Cost |-> Round2(frame.rows[i].Cost)]]])

\* lines 855-856 and 896-897: the inline note of a drill-down that raised
NoteItem(what, day, reg, why) ==
    Item("note", day, reg, [what |-> what, why |-> why])

\* line 846, 'if instance_response:': the truth value of a data frame is not
\* defined and asking for it raises ValueError; None is false
TruthValueRaises(frame) == frame.t = "df"

(***************************************************************************)
(* get_ec2_spend_last_day, lines 645-732: the response of its query.       *)
(***************************************************************************)
AbsentTotal == [t |-> "absent", Amount |-> 0, Unit |-> None]
\* 'Total': {}, what Cost Explorer sends with a grouped query
EmptyTotal == [t |-> "empty", Amount |-> 0, Unit |-> None]
CostTotal(amount) == [t |-> "cost", Amount |-> amount, Unit |-> "USD"]

InstanceGroup(type, amount) == [Keys |-> <<type>>, Amount |-> amount, Unit |-> "USD"]
TwoInstanceTypes == <<InstanceGroup("t3.micro", 1234), InstanceGroup("m5.large", 2004)>>

Period(hasGroups, groups, total) ==
    [hasGroups |-> hasGroups, Groups |-> groups, Total |-> total]

Ec2Responses ==
    {ResponseNoResults, Response(<<>>),
     Response(<<Period(TRUE, TwoInstanceTypes, EmptyTotal)>>),
     Response(<<Period(TRUE, TwoInstanceTypes, AbsentTotal)>>),
     Response(<<Period(TRUE, <<>>, CostTotal(5000))>>),
     Response(<<Period(FALSE, <<>>, CostTotal(5000))>>),
     Response(<<Period(TRUE, <<>>, AbsentTotal)>>),
     Response(<<Period(FALSE, <<>>, AbsentTotal)>>),
     Response(<<Period(TRUE, <<>>, EmptyTotal)>>),
     Response(<<Period(TRUE, <<InstanceGroup("t3.micro", 1234)>>, EmptyTotal),
                Period(TRUE, TwoInstanceTypes, EmptyTotal)>>)}

TotalLine(amount, currency) ==
    [kind |-> "Total EC2 Cost", amount |-> amount, currency |-> currency]
NoCostsLine ==
    [kind |-> "No EC2 costs found for this period", amount |-> 0, currency |-> None]
ErrorLine(why) == [kind |-> "Error retrieving EC2 cost data", amount |-> 0,
                   currency |-> why]

\* lines 693-725: the total line printed for a response, and whether computing it
\* raises (total['UnblendedCost'] on a Total without that key, line 715)
Ec2Total(resp) ==
    IF ~resp.hasResultsByTime \/ resp.ResultsByTime = <<>>
    THEN [raises |-> FALSE, line |-> NothingPrinted]
    ELSE LET time_period_data == resp.ResultsByTime[1]
             groups == time_period_data.Groups
             total_cost == SeqSum([i \in 1..Len(groups) |-> groups[i].Amount])
         IN  IF groups # <<>>
             THEN [raises |-> FALSE,
                   line |-> TotalLine(total_cost, groups[Len(groups)].Unit)]
             ELSE IF time_period_data.Total.t = "absent"
             THEN [raises |-> FALSE, line |-> NoCostsLine]
             ELSE IF time_period_data.Total.t = "empty"
             THEN [raises |-> TRUE, line |-> ErrorLine("KeyError")]
             ELSE [raises |-> FALSE,
                   line |-> TotalLine(time_period_data.Total.Amount,
                                      time_period_data.Total.Unit)]

ReturnedNone == [t |-> "None", value |-> <<>>]
ReturnedResponse(resp) == [t |-> "response", value |-> resp]
ReturnedText(lines) == [t |-> "text", value |-> lines]
\* line 911: f"Error retrieving detailed breakdown: {str(e)}"
ErrorText(why) == ReturnedText(<<Item("error", 0, None, why)>>)

(***************************************************************************)
(* The billing tools: one step per Cost Explorer call, and one per turn of *)
(* the loops of get_detailed_breakdown_by_day.                             *)
(***************************************************************************)
ProviderCall ==
    /\ nProvider' = nProvider + 1
    /\ usedClient' = [client |-> client, tag |-> clientTag]

\* lines 663-728: the query succeeds; the total is ec2_printed, the response returned
\* (None when printing raises, lines 730-732)
Ec2QueryOk(R) ==
    /\ pc = "ec2_query"
    /\ ProviderCall
    /\ \E resp \in R :
         /\ response' = resp
         /\ ec2_printed' = Ec2Total(resp).line
         /\ IF Ec2Total(resp).raises
              THEN returned' = ReturnedNone /\ outcome' = "None"
              ELSE returned' = ReturnedResponse(resp) /\ outcome' = "response"
    /\ pc' = "idle"
    /\ UNCHANGED <<paramVars, labelVars, logVars, resolverVars, date, regionsLeft,
                   services_df, output_buffer, drills, queryFailed>>

\* lines 730-732: the query raises, None is returned
Ec2QueryFails ==
    /\ pc = "ec2_query"
    /\ ProviderCall
    /\ queryFailed' = TRUE
    /\ ec2_printed' = ErrorLine("query")
    /\ returned' = ReturnedNone
    /\ outcome' = "None"
    /\ pc' = "idle"
    /\ UNCHANGED <<paramVars, labelVars, logVars, resolverVars, response, date,
                   regionsLeft, services_df, output_buffer, drills>>

\* lines 764-785: the query succeeds; line 791 raises KeyError on a response
\* without 'ResultsByTime' (lines 910-913)
BreakdownQueryOk(R) ==
    /\ pc = "breakdown_query"
    /\ ProviderCall
    /\ \E resp \in R :
         /\ response' = resp
         /\ IF resp.hasResultsByTime
              THEN /\ pc' = "next_day"
                   /\ UNCHANGED <<returned, outcome>>
              ELSE /\ pc' = "idle"
                   /\ returned' = ErrorText("KeyError")
                   /\ outcome' = "error_text"
    /\ output_buffer' = <<Item("title", 0, None, <<>>)>>
    /\ UNCHANGED <<paramVars, labelVars, logVars, resolverVars, date, regionsLeft,
                   services_df, drills, queryFailed, ec2_printed>>

\* the query raises and nothing catches it
BreakdownQueryFails_raises ==
    /\ pc = "breakdown_query"
    /\ ProviderCall
    /\ queryFailed' = TRUE
    /\ outcome' = "raised"
    /\ pc' = "idle"
    /\ UNCHANGED <<paramVars, labelVars, logVars, resolverVars, response, date,
                   regionsLeft, services_df, output_buffer, drills, ec2_printed,
                   returned>>

\* lines 910-913: the query raises, the error message is returned
BreakdownQueryFails ==
    /\ pc = "breakdown_query"
    /\ ProviderCall
    /\ queryFailed' = TRUE
    /\ returned' = ErrorText("query")
    /\ outcome' = "error_text"
    /\ pc' = "idle"
    /\ UNCHANGED <<paramVars, labelVars, logVars, resolverVars, response, date,
                   regionsLeft, services_df, output_buffer, drills, ec2_printed>>

\* lines 791-806 and 898-901: the next element of response['ResultsByTime']
NextDay ==
    /\ pc = "next_day"
    /\ date < Len(response.ResultsByTime)
    /\ LET time_data == response.ResultsByTime[date + 1]
           heading == Item("Date", date + 1, None, <<>>)
       IN  /\ date' = date + 1
           /\ IF time_data.hasGroups /\ time_data.Groups # <<>>
                THEN /\ regionsLeft' = SortedRegions(time_data.Groups)
                     /\ output_buffer' = Append(output_buffer, heading)
                     /\ pc' = "region"
                ELSE /\ output_buffer' = output_buffer \o
                            <<heading,
                              Item("No data found for this date", date + 1, None, <<>>),
                              Item("separator", date + 1, None, <<>>)>>
                     /\ UNCHANGED <<regionsLeft, pc>>
    /\ UNCHANGED <<paramVars, labelVars, logVars, resolverVars, response, services_df,
                   drills, queryFailed, ec2_printed, returned, outcome, nProvider,
                   usedClient>>

\* lines 904-908: the loop is over, the joined buffer is returned
BreakdownReturns ==
    /\ pc = "next_day"
    /\ date = Len(response.ResultsByTime)
    /\ returned' = ReturnedText(output_buffer)
    /\ outcome' = "report"
    /\ pc' = "idle"
    /\ UNCHANGED <<paramVars, labelVars, logVars, resolverVars, response, date,
                   regionsLeft, services_df, output_buffer, drills, queryFailed,
                   ec2_printed, nProvider, usedClient>>

\* the test of line 836 always true
HasCompute_always(sdf) == TRUE

\* line 836: the region has a service whose name starts with
\* 'Amazon Elastic Compute'
HasCompute(sdf) == \E i \in 1..Len(sdf) : StartsWithElasticCompute(sdf[i].Service)
\* line 859: the region has the service 'Amazon SageMaker'
HasSageMaker(sdf) == \E i \in 1..Len(sdf) : sdf[i].Service = SageMaker

\* where the loop body of lines 806-897 goes on after `stage` ("table", "ec2" or
\* "sagemaker") of the region at the head of regionsLeft, with buffer buf
Continue(stage, sdf, buf) ==
    IF stage = "table" /\ HasCompute(sdf)
    THEN /\ pc' = "ec2_drill"
         /\ output_buffer' = buf
         /\ UNCHANGED regionsLeft
    ELSE IF stage \in {"table", "ec2"} /\ HasSageMaker(sdf)
    THEN /\ pc' = "sagemaker_instance_drill"
         /\ output_buffer' = buf
         /\ UNCHANGED regionsLeft
    ELSE /\ regionsLeft' = Tail(regionsLeft)
         /\ IF Tail(regionsLeft) = <<>>
              THEN /\ pc' = "next_day"
                   /\ output_buffer' = Append(buf, Item("separator", date, None, <<>>))
              ELSE /\ pc' = "region"
                   /\ output_buffer' = buf

\* lines 806-833: the heading, the table of the top services and the line on the
\* other services of the next region of the date
RegionTable ==
    /\ pc = "region"
    /\ LET groups == response.ResultsByTime[date].Groups
           reg == Head(regionsLeft)
       IN  \E sdf \in SortedByCost(SeqToSet(ServicesDf(groups, reg))) :
              /\ services_df' = sdf
              /\ Continue("table", sdf,
                          output_buffer \o <<Item("Region", date, reg, <<>>)>>
                            \o TableItems(date, reg, sdf, groups[Len(groups)].Unit))
    /\ UNCHANGED <<paramVars, labelVars, logVars, resolverVars, response, date, drills,
                   queryFailed, ec2_printed, returned, outcome, nProvider, usedClient>>

\* one drill-down query, as it is recorded in drills
Drill(service, key, result) ==
    [date |-> date, reg |-> Head(regionsLeft), service |-> service, key |-> key,
     result |-> result]

\* lines 837-853: the instance-type query for the compute service succeeds; the
\* test of line 846 raises on a frame, and lines 855-856 append the note
Ec2DrillOk ==
    /\ pc = "ec2_drill"
    /\ ProviderCall
    /\ \E groups \in DrillGroups :
         LET instance_response == InstanceTypeBreakdown(groups, "INSTANCE_TYPE")
             reg == Head(regionsLeft)
         IN  /\ drills' = Append(drills,
                                 Drill(EC2Compute, "INSTANCE_TYPE", instance_response))
             /\ Continue("ec2", services_df,
                         IF TruthValueRaises(instance_response)
                         THEN Append(output_buffer,
                                     NoteItem("EC2 instance type breakdown", date, reg,
                                              "ValueError"))
                         ELSE output_buffer)
    /\ UNCHANGED <<paramVars, labelVars, logVars, resolverVars, response, date,
                   services_df, queryFailed, ec2_printed, returned, outcome>>

\* the query raises and only the handler of lines 910-913 catches it
Ec2DrillFails_propagates ==
    /\ pc = "ec2_drill"
    /\ ProviderCall
    /\ drills' = Append(drills, Drill(EC2Compute, "INSTANCE_TYPE", QueryRaised))
    /\ returned' = ErrorText("query")
    /\ outcome' = "error_text"
    /\ pc' = "idle"
    /\ UNCHANGED <<paramVars, labelVars, logVars, resolverVars, response, date,
                   regionsLeft, services_df, output_buffer, queryFailed, ec2_printed>>

\* lines 855-856: the query raises, the note is appended
Ec2DrillFails ==
    /\ pc = "ec2_drill"
    /\ ProviderCall
    /\ drills' = Append(drills, Drill(EC2Compute, "INSTANCE_TYPE", QueryRaised))
    /\ Continue("ec2", services_df,
                Append(output_buffer,
                       NoteItem("EC2 instance type breakdown", date,
                                Head(regionsLeft), "query")))
    /\ UNCHANGED <<paramVars, labelVars, logVars, resolverVars, response, date,
                   services_df, queryFailed, ec2_printed, returned, outcome>>

\* lines 861-877: the instance-type query for SageMaker succeeds
SageMakerInstanceDrillOk ==
    /\ pc = "sagemaker_instance_drill"
    /\ ProviderCall
    /\ \E groups \in DrillGroups :
         LET sagemaker_instance_response ==
                 InstanceTypeBreakdown(groups, "INSTANCE_TYPE")
         IN  /\ drills' = Append(drills, Drill(SageMaker, "INSTANCE_TYPE",
                                               sagemaker_instance_response))
             /\ output_buffer' =
                   IF sagemaker_instance_response.t = "df"
                   THEN Append(output_buffer,
                               BreakdownItem("SageMaker Instance Type Breakdown", date,
                                             Head(regionsLeft),
                                             sagemaker_instance_response))
                   ELSE output_buffer
    /\ pc' = "sagemaker_usage_drill"
    /\ UNCHANGED <<paramVars, labelVars, logVars, resolverVars, response, date,
                   regionsLeft, services_df, queryFailed, ec2_printed, returned,
                   outcome>>

\* lines 880-894: the usage-type query for SageMaker succeeds
SageMakerUsageDrillOk ==
    /\ pc = "sagemaker_usage_drill"
    /\ ProviderCall
    /\ \E groups \in DrillGroups :
         LET sagemaker_usage_response == InstanceTypeBreakdown(groups, "USAGE_TYPE")
         IN  /\ drills' = Append(drills, Drill(SageMaker, "USAGE_TYPE",
                                               sagemaker_usage_response))
             /\ Continue("sagemaker", services_df,
                         IF sagemaker_usage_response.t = "df"
                         THEN Append(output_buffer,
                                     BreakdownItem("SageMaker Usage Type Breakdown",
                                                   date, Head(regionsLeft),
                                                   sagemaker_usage_response))
                         ELSE output_buffer)
    /\ UNCHANGED <<paramVars, labelVars, logVars, resolverVars, response, date,
                   services_df, queryFailed, ec2_printed, returned, outcome>>

\* lines 896-897: either SageMaker query raises; the one except clause of the
\* try block that holds both appends the note and the block is left
SageMakerDrillFails ==
    /\ pc \in {"sagemaker_instance_drill", "sagemaker_usage_drill"}
    /\ ProviderCall
    /\ drills' = Append(drills,
                        Drill(SageMaker,
                              IF pc = "sagemaker_instance_drill" THEN "INSTANCE_TYPE"
                              ELSE "USAGE_TYPE",
                              QueryRaised))
    /\ Continue("sagemaker", services_df,
                Append(output_buffer,
                       NoteItem("SageMaker breakdown", date, Head(regionsLeft),
                                "query")))
    /\ UNCHANGED <<paramVars, labelVars, logVars, resolverVars, response, date,
                   services_df, queryFailed, ec2_printed, returned, outcome>>

(***************************************************************************)
(* Specifications.                                                         *)
(***************************************************************************)

\* the server after start-up: no tool has been invoked
Init ==
    /\ pc = "idle"
    /\ tool = None /\ aws_account_id = None /\ region = None
    /\ inv = 0
    /\ this_account = None
    /\ credentials = NoCredentials /\ credSerial = 0
    /\ client = NoClient /\ clientTag = NoTag
    /\ outcome = "none" /\ failedAt = "none"
    /\ nIdentity = 0 /\ nAssume = 0 /\ nClient = 0 /\ nProvider = 0
    /\ assumeArn = NoArn
    /\ issued = 0 /\ issuedAtStart = 0
    /\ returnedCreds = NoCredentials
    /\ usedClient = NoUse
    /\ response = NoResponse /\ date = 0 /\ regionsLeft = <<>>
    /\ services_df = <<>> /\ output_buffer = <<>> /\ drills = <<>>
    /\ queryFailed = FALSE /\ ec2_printed = NothingPrinted
    /\ returned = NotReturned
    /\ model_id = <<>> /\ short_id = NoLabel /\ short_again = NoLabel
    /\ nPages = 0 /\ delivered = <<>> /\ filtered_logs = <<>>
    /\ df = NoDf /\ diagnostic = "none" /\ report = NoReport

\* the responses the tools are given at the tool boundary
ToolEc2Responses ==
    {Response(<<Period(TRUE, TwoInstanceTypes, EmptyTotal)>>),
     Response(<<Period(TRUE, <<>>, EmptyTotal)>>)}
ToolBreakdownResponses == {Response(<<>>), Response(<<DayTwoRegions(1)>>)}

Next ==
    \/ Invoke
    \/ IdentityOk \/ Identity2Ok \/ IdentityFails
    \/ AssumeRoleOk \/ AssumeRoleFails
    \/ MakeClientOk \/ MakeClientFails
    \/ NextPage(ToolEvents) \/ PaginateExhausted \/ PaginateNotFound \/ PaginateFails
    \/ Ec2QueryOk(ToolEc2Responses) \/ Ec2QueryFails
    \/ BreakdownQueryOk(ToolBreakdownResponses) \/ BreakdownQueryFails
    \/ NextDay \/ RegionTable \/ BreakdownReturns
    \/ Ec2DrillOk \/ Ec2DrillFails
    \/ SageMakerInstanceDrillOk \/ SageMakerUsageDrillOk \/ SageMakerDrillFails

Spec == Init /\ [][Next]_vars

\* a usage tool at line 167 of get_bedrock_logs: its client was resolved in the
\* current account and filtered_logs is empty
InitLogs ==
    /\ pc = "paginate"
    /\ tool \in LogTools
    /\ aws_account_id = None
    /\ region = "us-east-1"
    /\ inv = 1
    /\ this_account = OwnAccount
    /\ credentials = NoCredentials /\ credSerial = 0
    /\ client = LocalClient("logs", "us-east-1")
    /\ clientTag = [madeIn |-> 1, serial |-> 0]
    /\ outcome = "none" /\ failedAt = "none"
    /\ nIdentity = 1 /\ nAssume = 0 /\ nClient = 1 /\ nProvider = 0
    /\ assumeArn = NoArn
    /\ issued = 0 /\ issuedAtStart = 0
    /\ returnedCreds = NoCredentials
    /\ usedClient = NoUse
    /\ response = NoResponse /\ date = 0 /\ regionsLeft = <<>>
    /\ services_df = <<>> /\ output_buffer = <<>> /\ drills = <<>>
    /\ queryFailed = FALSE /\ ec2_printed = NothingPrinted
    /\ returned = NotReturned
    /\ model_id = <<>> /\ short_id = NoLabel /\ short_again = NoLabel
    /\ nPages = 0 /\ delivered = <<>> /\ filtered_logs = <<>>
    /\ df = NoDf /\ diagnostic = "none" /\ report = NoReport

NextLogs ==
    \/ NextPage(Events) \/ PaginateExhausted \/ PaginateNotFound \/ PaginateFails

SpecLogs == InitLogs /\ [][NextLogs]_vars

\* the same fetch over events that differ in the shape of their messages
NextPrompt ==
    \/ NextPage(PromptEvents) \/ PaginateExhausted \/ PaginateNotFound \/ PaginateFails

SpecPrompt == InitLogs /\ [][NextPrompt]_vars

\* a billing tool whose Cost Explorer client has been resolved, facing every
\* response of the model
InitBilling ==
    /\ pc \in {"ec2_query", "breakdown_query"}
    /\ tool = (IF pc = "ec2_query" THEN "get_ec2_spend_last_day"
               ELSE "get_detailed_breakdown_by_day")
    /\ aws_account_id = None
    /\ region = "us-east-1"
    /\ inv = 1
    /\ this_account = OwnAccount
    /\ credentials = NoCredentials /\ credSerial = 0
    /\ client = LocalClient("ce", "us-east-1")
    /\ clientTag = [madeIn |-> 1, serial |-> 0]
    /\ outcome = "none" /\ failedAt = "none"
    /\ nIdentity = 1 /\ nAssume = 0 /\ nClient = 1 /\ nProvider = 0
    /\ assumeArn = NoArn
    /\ issued = 0 /\ issuedAtStart = 0
    /\ returnedCreds = NoCredentials
    /\ usedClient = NoUse
    /\ response = NoResponse /\ date = 0 /\ regionsLeft = <<>>
    /\ services_df = <<>> /\ output_buffer = <<>> /\ drills = <<>>
    /\ queryFailed = FALSE /\ ec2_printed = NothingPrinted
    /\ returned = NotReturned
    /\ nPages = 0 /\ delivered = <<>> /\ filtered_logs = <<>>
    /\ df = NoDf /\ diagnostic = "none" /\ report = NoReport
    /\ model_id = <<>> /\ short_id = NoLabel /\ short_again = NoLabel

NextBilling ==
    \/ Ec2QueryOk(Ec2Responses) \/ Ec2QueryFails
    \/ BreakdownQueryOk(BreakdownResponses(MaxDays)) \/ BreakdownQueryFails
    \/ NextDay \/ RegionTable \/ BreakdownReturns
    \/ Ec2DrillOk \/ Ec2DrillFails
    \/ SageMakerInstanceDrillOk \/ SageMakerUsageDrillOk \/ SageMakerDrillFails

SpecBilling == InitBilling /\ [][NextBilling]_vars

\* the identifiers of at most MaxIdLen characters over two letters and the two
\* separators
IdChars == {"a", "b", ".", "/"}
Identifiers == UNION {[1..n -> IdChars] : n \in 0..MaxIdLen}

\* the lambda of lines 402-404 (and 522-524, 572-574, 609-611) applied to one
\* identifier
ShortenModelId ==
    /\ short_id = NoLabel
    /\ short_id' = Shorten(model_id)
    /\ UNCHANGED <<pc, outcome, nProvider, usedClient, model_id, short_again,
                   paramVars, billingVars, logVars, resolverVars>>

\* the same lambda applied to the label it returned
ShortenAgain ==
    /\ short_id # NoLabel /\ short_again = NoLabel
    /\ short_again' = Shorten(short_id)
    /\ UNCHANGED <<pc, outcome, nProvider, usedClient, model_id, short_id,
                   paramVars, billingVars, logVars, resolverVars>>

InitShorten ==
    /\ pc = "idle"
    /\ tool = None /\ aws_account_id = None /\ region = None
    /\ inv = 0
    /\ this_account = None
    /\ credentials = NoCredentials /\ credSerial = 0
    /\ client = NoClient /\ clientTag = NoTag
    /\ outcome = "none" /\ failedAt = "none"
    /\ nIdentity = 0 /\ nAssume = 0 /\ nClient = 0 /\ nProvider = 0
    /\ assumeArn = NoArn
    /\ issued = 0 /\ issuedAtStart = 0
    /\ returnedCreds = NoCredentials
    /\ usedClient = NoUse
    /\ response = NoResponse /\ date = 0 /\ regionsLeft = <<>>
    /\ services_df = <<>> /\ output_buffer = <<>> /\ drills = <<>>
    /\ queryFailed = FALSE /\ ec2_printed = NothingPrinted
    /\ returned = NotReturned
    /\ nPages = 0 /\ delivered = <<>> /\ filtered_logs = <<>>
    /\ df = NoDf /\ diagnostic = "none" /\ report = NoReport
    /\ model_id \in Identifiers /\ short_id = NoLabel /\ short_again = NoLabel

NextShorten == ShortenModelId \/ ShortenAgain

SpecShorten == InitShorten /\ [][NextShorten]_vars

(***************************************************************************)
(* Properties.                                                             *)
(***************************************************************************)
TotalOf(table) == SeqSum(Column(table, "totalTokens", "sum"))
RequestsOf(table) == SeqSum(Column(table, "inputTokens", "count"))

\* a record with every field the data model requires (the principal may be absent)
Complete(r) ==
    /\ r.timestamp.t = "ts" /\ r.region # None /\ r.modelId # NoneModel
    /\ r.inputTokens.t = "int" /\ r.completionTokens.t = "int"
CompleteRecordSet == \A i \in 1..Len(df.rows) : Complete(df.rows[i])

\* C1: within one call of get_bedrock_daily_usage_stats the totalTokens_sum of the
\* (date, region, modelId) groups adds up to the same total as that of the region
\* summary, of the model summary and of the user summary, and to the 'Total Tokens'
\* line.  Stated here for the record sets whose records have every required field,
\* the userId alone being possibly absent.
C1_GroupingInvariantTotals ==
    (report.kind = "daily" /\ CompleteRecordSet) =>
        /\ TotalOf(report.sections[1]) = TotalOf(report.sections[3])
        /\ TotalOf(report.sections[1]) = TotalOf(report.sections[4])
        /\ TotalOf(report.sections[1]) = TotalOf(report.sections[5])
        /\ TotalOf(report.sections[1]) = report.sections[2].totals[4]

\* C2: in every grouping of the daily and of the hourly report every record of the
\* record set is counted in exactly one group: the request_count values of the
\* groups add up to the number of records.  Stated here for the record sets whose
\* records have every required field, the userId alone being possibly absent.
C2_GroupsPartitionRecords ==
    (report.kind \in {"daily", "hourly"} /\ CompleteRecordSet) =>
        \A n \in 1..Len(report.sections) :
            report.sections[n].dims # <<>> =>
                RequestsOf(report.sections[n]) = Len(df.rows)

\* C3: get_bedrock_logs never returns a record in which timestamp, region, modelId,
\* inputTokens or completionTokens is missing.
C3_NoRecordMissingAField ==
    \A i \in 1..Len(df.rows) :
        /\ df.rows[i].timestamp.t = "ts"
        /\ df.rows[i].region # None
        /\ df.rows[i].modelId # NoneModel
        /\ df.rows[i].inputTokens.t # "none"
        /\ df.rows[i].completionTokens.t # "none"

\* an event with every required field, of the expected structure
WellFormed(e) ==
    /\ e.hasMessage /\ e.json = "object"
    /\ e.timestamp.t = "ts" /\ e.region # None /\ e.modelId # NoneModel
    /\ e.identity.t # "wrongtype"
    /\ e.input.t = "dict" /\ e.input.inputTokenCount.t = "int"
    /\ e.output.t = "dict" /\ e.output.outputTokenCount.t = "int"
    /\ ~PromptRaises(e.input)

RECURSIVE IsSubseq(_, _)
IsSubseq(xs, ys) ==
    IF xs = <<>> THEN TRUE
    ELSE IF ys = <<>> THEN FALSE
    ELSE IF Head(xs) = Head(ys) THEN IsSubseq(Tail(xs), Tail(ys))
    ELSE IsSubseq(xs, Tail(ys))

\* the records of the well-formed events delivered so far
ExpectedRecords ==
    LET wf == SelectSeq(delivered, WellFormed)
    IN  [i \in 1..Len(wf) |-> FilteredEvent(wf[i])]

\* C4: when the provider delivered its pages without failing, get_bedrock_logs
\* returns one record for every well-formed event, whatever malformed events the
\* pages held.
C4_MalformedEventSkippedAlone ==
    (df # NoDf /\ diagnostic \notin {"Log group or stream not found",
                                     "Error retrieving logs: transport"})
        => IsSubseq(ExpectedRecords, df.rows)

\* C5: no tool invocation ends with an exception leaving the tool, nor without a
\* textual result when a call it made failed.
C5_ToolsAreTotal ==
    /\ outcome # "raised"
    /\ outcome # "None"

\* C6: with aws_account_id None or empty no role assumption is attempted, and the
\* client is the one built with the ambient identity in the given region.
C6_NoAssumeWithoutAccount ==
    aws_account_id \in {None, EmptyAccount} =>
        /\ nAssume = 0
        /\ client # NoClient => client = LocalClient(ServiceOf(tool), region)

\* C7: with aws_account_id equal to the account the identity lookup returned, no
\* role assumption is attempted and the client carries no explicit credentials, in
\* the first call and in every later one.
C7_SelfAccountIsLocal ==
    (nIdentity >= 1 /\ this_account # None /\ aws_account_id = this_account) =>
        /\ nAssume = 0
        /\ pc \notin {"sts_identity2", "assume_role"}
        /\ nClient >= 1 =>
             /\ client.service = ServiceOf(tool)
             /\ client.region_name = region
             /\ client.aws_access_key_id = Ambient
             /\ client.aws_secret_access_key = Ambient
             /\ client.aws_session_token = Ambient

C7_Witness ==
    /\ inv = 2 /\ aws_account_id = OwnAccount /\ this_account = OwnAccount
    /\ nClient = 1 /\ client.aws_access_key_id = Ambient /\ nProvider >= 1

\* C8: with aws_account_id given and different from the caller's account, a client
\* is returned only after exactly one role assumption, made for the ARN
\* arn:aws:iam::<aws_account_id>:role/<account_b_role_name>; it is a client of the
\* requested service and region with exactly the access key, secret key and session
\* token that role assumption returned.
C8_DelegatedClient ==
    (this_account # None /\ aws_account_id # None /\ aws_account_id # this_account
        /\ nClient >= 1) =>
        /\ nAssume = 1
        /\ nClient = 1
        /\ assumeArn = <<"arn:aws:iam::", aws_account_id, ":role/",
                         CROSS_ACCOUNT_ROLE_NAME>>
        /\ returnedCreds \in CredentialTriples
        /\ client.service = ServiceOf(tool)
        /\ client.region_name = region
        /\ client.aws_access_key_id = returnedCreds.AccessKeyId
        /\ client.aws_secret_access_key = returnedCreds.SecretAccessKey
        /\ client.aws_session_token = returnedCreds.SessionToken

C8_Witness ==
    /\ aws_account_id = OtherAccount /\ nClient = 1 /\ nAssume = 1
    /\ client.aws_session_token = "TK2" /\ client.region_name = "eu-west-1"

\* C9: once the identity lookup or the role assumption has failed, the invocation is
\* over with the exception raised: the failed call is not attempted again, no client
\* of the requested service is constructed and no log-provider or billing-provider
\* call is made.
C9_ResolutionFailureAborts ==
    failedAt \in {"identity", "assume_role"} =>
        /\ pc = "idle"
        /\ outcome = "raised"
        /\ client = NoClient
        /\ nClient = 0
        /\ nProvider = 0
        /\ failedAt = "identity" => nAssume = 0 /\ nIdentity \in {1, 2}
        /\ failedAt = "assume_role" => nAssume = 1 /\ nIdentity = 2

C9_Witness ==
    /\ failedAt = "assume_role" /\ outcome = "raised" /\ nAssume = 1
    /\ tool = "get_ec2_spend_last_day"

\* C10: every provider call of an invocation is made with the client that very
\* invocation resolved; when the target account differs from the caller's, that
\* client carries credentials the invocation's own role assumption returned, never
\* credentials issued before the invocation started.
C10_FreshScopePerInvocation ==
    nProvider >= 1 =>
        /\ nClient = 1
        /\ nIdentity >= 1
        /\ usedClient.client = client
        /\ usedClient.tag.madeIn = inv
        /\ (aws_account_id # None /\ aws_account_id # this_account) =>
             /\ nAssume = 1
             /\ usedClient.tag.serial > issuedAtStart
             /\ usedClient.tag.serial = issued
             /\ usedClient.client.aws_access_key_id = returnedCreds.AccessKeyId

C10_Witness ==
    /\ inv = 2 /\ nProvider >= 1 /\ aws_account_id = OtherAccount
    /\ usedClient.tag.serial = 2 /\ issuedAtStart = 1

\* the frame get_bedrock_logs returns when the same events arrive as a single page
SinglePageResult(events) ==
    LET res == ProcessEvents(events, <<>>)
    IN  IF res.aborted THEN NoneDf ELSE MakeDf(res.logs)

\* the fetch ended without a failure of the log provider
FetchEndedNoProviderFailure ==
    /\ df # NoDf
    /\ diagnostic \notin {"Log group or stream not found",
                          "Error retrieving logs: transport"}

\* C11: when get_bedrock_logs yields no records (no events, every event skipped,
\* or the log group or stream missing) the usage tool returns exactly
\* 'No usage data found for the specified period.', with no grouping performed
\* and no table section; a missing log group never leaves get_bedrock_logs as an
\* exception.
C11_NoRecordsNoData ==
    /\ (df # NoDf /\ df.rows = <<>>) =>
           /\ report.kind = "No usage data found for the specified period."
           /\ report.sections = <<>>
           /\ outcome = "nodata_text"
    /\ diagnostic = "Log group or stream not found" =>
           /\ df = NoneDf
           /\ pc = "idle" /\ outcome # "raised"

\* every delivered event was skipped and the tool answered with the no-data text
C11_Witness ==
    /\ delivered # <<>>
    /\ diagnostic = "No logs found for the specified time period."
    /\ df = NoneDf /\ report = NoDataReport /\ outcome = "nodata_text"

\* C12: a transport or API failure of the log provider has an outcome distinct
\* from the not-found one: the usage tool returns a textual error and not
\* 'No usage data found for the specified period.'.
C12_TransportFailureIsAnError ==
    diagnostic = "Error retrieving logs: transport" =>
        /\ report.kind # "No usage data found for the specified period."
        /\ outcome = "error_text"

\* the number of elements of xs that equal x
Occurrences(xs, x) == Cardinality({i \in 1..Len(xs) : xs[i] = x})

\* C13: get_bedrock_logs consumes every page; however the delivered events were
\* split into pages, it returns the records it returns for the same events in a
\* single page, in the same order, and every well-formed event has exactly one
\* record.
C13_PageSplitIndependent ==
    FetchEndedNoProviderFailure =>
        /\ df = SinglePageResult(delivered)
        /\ \A i \in 1..Len(delivered) :
               WellFormed(delivered[i]) =>
                   Occurrences(df.rows, FilteredEvent(delivered[i]))
                       = Occurrences(delivered, delivered[i])

\* the services the billing response has for a date and a region, their costs and
\* the full cost of the region
RegionRows(day, reg) == ServicesDf(response.ResultsByTime[day].Groups, reg)
RegionServices(day, reg) ==
    LET groups == response.ResultsByTime[day].Groups
    IN  {groups[i].Keys[2] : i \in {j \in 1..Len(groups) : groups[j].Keys[1] = reg}}
ExactCost(day, reg, service) ==
    LET groups == response.ResultsByTime[day].Groups
    IN  groups[CHOOSE i \in 1..Len(groups) :
                  /\ groups[i].Keys = <<reg, service>>
                  /\ \A j \in (i + 1)..Len(groups) :
                        groups[j].Keys # <<reg, service>>].Amount
RECURSIVE CostOf(_, _, _)
CostOf(day, reg, services) ==
    IF services = {} THEN 0
    ELSE LET x == CHOOSE y \in services : TRUE
         IN  ExactCost(day, reg, x) + CostOf(day, reg, services \ {x})
FullCost(day, reg) == CostOf(day, reg, RegionServices(day, reg))
\* the table of entry k of output_buffer, with the costs before rounding
ListedCosts(k) ==
    LET it == output_buffer[k]
    IN  [i \in 1..Len(it.body) |-> ExactCost(it.date, it.reg, it.body[i].Service)]
DisplayedCosts(k) ==
    [i \in 1..Len(output_buffer[k].body) |-> output_buffer[k].body[i].Cost]
IsOthersLine(k) == k <= Len(output_buffer) /\ output_buffer[k].kind = "others"

\* C14 (as stated): for a (date, region) with more than 5 services, the five costs
\* displayed in the table plus the remainder displayed in the 'more services
\* totaling' line equal the full cost of the region for that date.
C14_DisplayedReconciles ==
    \A k \in 1..Len(output_buffer) :
        (output_buffer[k].kind = "table" /\ IsOthersLine(k + 1)) =>
            SeqSum(DisplayedCosts(k)) + output_buffer[k + 1].body.shown
                = FullCost(output_buffer[k].date, output_buffer[k].reg)

\* C14 (amended): for a (date, region) with more than 5 services, the five listed
\* costs and the remainder add up to the full cost of the region before rounding;
\* the six displayed values, each rounded to 2 decimals, add up to it to within
\* 0.03 (30 thousandths).
C14_ExactReconciles ==
    \A k \in 1..Len(output_buffer) :
        (output_buffer[k].kind = "table" /\ IsOthersLine(k + 1)) =>
            LET full == FullCost(output_buffer[k].date, output_buffer[k].reg)
                shown == SeqSum(DisplayedCosts(k)) + output_buffer[k + 1].body.shown
            IN  /\ SeqSum(ListedCosts(k)) + output_buffer[k + 1].body.other_cost = full
                /\ shown - full <= 30 /\ full - shown <= 30

\* a remainder line whose amount was changed by the rounding
C14_Witness ==
    \E k \in 1..Len(output_buffer) :
        /\ output_buffer[k].kind = "others"
        /\ output_buffer[k].body.shown # output_buffer[k].body.other_cost

DrillIssued == Len(drills') = Len(drills) + 1
Concerns(drill, service) ==
    IF drill.service = EC2Compute THEN StartsWithElasticCompute(service)
    ELSE service = drill.service

\* C16 (as stated): a drill-down query is issued for a (date, region) only when
\* the service concerned is among the top 5 services kept for display.
C16_DrillOnlyForTopService ==
    [][DrillIssued =>
          \E i \in 1..Len(TopServices(services_df)) :
              Concerns(drills'[Len(drills')], TopServices(services_df)[i].Service)]_vars

\* C16 (amended): a drill-down query is issued for a (date, region) only when the
\* services the billing response has for that date and region, listed or not,
\* include the service concerned.
C16_DrillOnlyForRegionService ==
    \A k \in 1..Len(drills) :
        \E x \in RegionServices(drills[k].date, drills[k].reg) :
            Concerns(drills[k], x)

\* a drill-down issued for a service that at least five services of the region
\* cost more than
C16_Witness ==
    \E k \in 1..Len(drills) :
        LET services == RegionServices(drills[k].date, drills[k].reg)
            cost(x) == ExactCost(drills[k].date, drills[k].reg, x)
        IN  \E x \in services :
               /\ Concerns(drills[k], x)
               /\ Cardinality({y \in services : cost(y) > cost(x)}) >= 5

\* the (date, region) pairs of the billing response
RegionsOfDay(day) ==
    {response.ResultsByTime[day].Groups[i].Keys[1] :
        i \in 1..Len(response.ResultsByTime[day].Groups)}
\* entry it of the report is the table of the top services of its date and region
IsTopServicesTable(it) ==
    /\ it.kind = "table"
    /\ \E sdf \in SortedByCost(SeqToSet(RegionRows(it.date, it.reg))) :
          it.body = [i \in 1..Len(TopServices(sdf)) |->
                        [Service |-> sdf[i].Service, Cost |-> Round2(sdf[i].Cost)]]
DrillFailed(k) == drills[k].result.t = "raised"

\* C17: when a drill-down query fails, get_detailed_breakdown_by_day still returns
\* the report; the report has a 'Note: Could not retrieve ...' line at the date
\* and region of the failed query, and for every date and region of the billing
\* response exactly one table of its top services, the same as without the failure.
C17_DrillFailureIsInlineNote ==
    (pc = "idle" /\ \E k \in 1..Len(drills) : DrillFailed(k)) =>
        /\ outcome = "report"
        /\ returned.t = "text"
        /\ \A k \in 1..Len(drills) :
              DrillFailed(k) =>
                  \E n \in 1..Len(returned.value) :
                      /\ returned.value[n].kind = "note"
                      /\ returned.value[n].date = drills[k].date
                      /\ returned.value[n].reg = drills[k].reg
                      /\ returned.value[n].body.why = "query"
        /\ \A day \in 1..Len(response.ResultsByTime) :
              \A reg \in RegionsOfDay(day) :
                  /\ Cardinality({n \in 1..Len(returned.value) :
                                     /\ returned.value[n].kind = "table"
                                     /\ returned.value[n].date = day
                                     /\ returned.value[n].reg = reg}) = 1
                  /\ \A n \in 1..Len(returned.value) :
                        (/\ returned.value[n].kind = "table"
                         /\ returned.value[n].date = day
                         /\ returned.value[n].reg = reg)
                            => IsTopServicesTable(returned.value[n])

\* a report returned after a drill-down failed on the first date, with the table
\* of a region of the second date in it
C17_Witness ==
    /\ outcome = "report"
    /\ \E k \in 1..Len(drills) : DrillFailed(k) /\ drills[k].date = 1
    /\ \E n \in 1..Len(returned.value) :
          returned.value[n].kind = "table" /\ returned.value[n].date = 2

C19_Ec2TotalAndResponse ==
    (tool = "get_ec2_spend_last_day" /\ pc = "idle" /\ ~queryFailed) =>
        /\ returned = ReturnedResponse(response)
        /\ (response.hasResultsByTime /\ response.ResultsByTime # <<>>) =>
              LET first == response.ResultsByTime[1]
              IN  IF first.Groups # <<>>
                  THEN /\ ec2_printed.kind = "Total EC2 Cost"
                       /\ ec2_printed.amount =
                             SeqSum([i \in 1..Len(first.Groups) |->
                                        first.Groups[i].Amount])
                  ELSE IF first.Total.t = "cost"
                  THEN /\ ec2_printed.kind = "Total EC2 Cost"
                       /\ ec2_printed.amount = first.Total.Amount
                  ELSE ec2_printed.kind = "No EC2 costs found for this period"

\* C20: the shortening returns the part of the identifier after its last '.'
\* when it has a '.', otherwise the part after its last '/'; an identifier with
\* neither is returned unchanged.
C20_ShortenTakesLastPiece ==
    short_id # NoLabel =>
        LET has(ch) == \E i \in 1..Len(model_id) : model_id[i] = ch
            afterLast(ch) ==
                \E i \in 1..Len(model_id) :
                    /\ model_id[i] = ch
                    /\ \A j \in (i + 1)..Len(model_id) : model_id[j] # ch
                    /\ short_id = [j \in 1..(Len(model_id) - i) |-> model_id[i + j]]
        IN  IF has(".") THEN afterLast(".")
            ELSE IF has("/") THEN afterLast("/")
            ELSE short_id = model_id

\* an identifier with two '.' and a '/' after them has been shortened
C20_Witness ==
    /\ short_id # NoLabel
    /\ \E i, j, k \in 1..Len(model_id) :
          /\ i < j /\ j < k
          /\ model_id[i] = "." /\ model_id[j] = "." /\ model_id[k] = "/"

\* C21: once the client is resolved, get_bedrock_logs ends every fetch by
\* returning a record collection or None, whatever events the pages held; no
\* exception leaves it.
C21_FetchNeverRaises ==
    /\ df.t \in {"unset", "df", "None"}
    /\ df.t = "unset" <=> pc = "paginate"
    /\ (\E i \in 1..Len(delivered) : EventStatus(delivered[i]) = "abort") =>
           df = NoneDf /\ pc = "idle"

\* an event whose processing raised was delivered and None was returned
C21_Witness ==
    /\ \E i \in 1..Len(delivered) : EventStatus(delivered[i]) = "abort"
    /\ diagnostic = "Error retrieving logs: event"
    /\ df = NoneDf

\* what a section of a usage report is, by the columns it is grouped on
HasDim(sec, dim) == \E i \in 1..Len(sec.dims) : sec.dims[i] = dim
SectionRole(sec) ==
    IF sec.dims = <<>> THEN "summary totals"
    ELSE IF sec.dims = <<"region">> THEN "per-region summary"
    ELSE IF sec.dims = <<"modelId">> THEN "per-model summary"
    ELSE IF sec.dims = <<"userId">> THEN "per-principal summary"
    ELSE IF HasDim(sec, "region") /\ HasDim(sec, "modelId") /\ HasDim(sec, "userId")
    THEN "cross-joined detail"
    ELSE IF HasDim(sec, "region") /\ HasDim(sec, "modelId") THEN "detailed breakdown"
    ELSE "other"
SectionRoles ==
    SelectSeq([n \in 1..Len(report.sections) |-> SectionRole(report.sections[n])],
              LAMBDA r : r # "other")

\* C22: in the report of the daily and of the hourly tool the detailed breakdown,
\* the summary totals, the per-region summary, the per-model summary, the
\* per-principal summary and the cross-joined detail come in this order.
C22_SectionOrder ==
    report.kind \in {"daily", "hourly"} =>
        SectionRoles = <<"detailed breakdown", "summary totals", "per-region summary",
                         "per-model summary", "per-principal summary",
                         "cross-joined detail">>

\* a daily report over records of two regions
C22_Witness ==
    /\ report.kind = "daily"
    /\ Len(report.sections) = 6
    /\ Len(report.sections[3].rows) = 2

\* the model labels of a section: the modelId component of the key of each row
ModelLabels(sec) ==
    { sec.rows[r].key[i] : r \in 1..Len(sec.rows),
                           i \in { j \in 1..Len(sec.dims) : sec.dims[j] = "modelId" } }

\* C23: in every table of a usage report that has a model identifier column, in
\* both tools, each model label is the shortened form of the model identifier of
\* a record.
C23_ModelShownShortened ==
    report.kind \in {"daily", "hourly"} =>
        \A n \in 1..Len(report.sections) :
            \A label \in ModelLabels(report.sections[n]) :
                \E j \in 1..Len(df.rows) : label = Shorten(df.rows[j].modelId)

\* the fields the record is built from are all present and of their types
RequiredFieldsPresent(e) ==
    /\ e.hasMessage /\ e.json = "object"
    /\ e.timestamp.t = "ts" /\ e.region # None /\ e.modelId # NoneModel
    /\ e.input.t = "dict" /\ e.input.inputTokenCount.t = "int"
    /\ e.output.t = "dict" /\ e.output.outputTokenCount.t = "int"

\* C24: whatever the shape of input.inputBodyJson.messages, an event whose required
\* fields are all present yields its record, and the other events of the fetch
\* theirs: when the pages are exhausted the frame holds one record per such event.
C24_PromptNeverFails ==
    (pc = "idle" /\ diagnostic \notin {"Error retrieving logs: transport",
                                      "Log group or stream not found"}) =>
        Len(df.rows) = Len(SelectSeq(delivered, RequiredFieldsPresent))

\* the report has an entry of this kind for this date and region
HasBreakdown(title, day, reg) ==
    \E n \in 1..Len(output_buffer) :
        /\ output_buffer[n].kind = "breakdown"
        /\ output_buffer[n].date = day /\ output_buffer[n].reg = reg
        /\ output_buffer[n].body.title = title
HasNote(what, day, reg) ==
    \E n \in 1..Len(output_buffer) :
        /\ output_buffer[n].kind = "note"
        /\ output_buffer[n].date = day /\ output_buffer[n].reg = reg
        /\ output_buffer[n].body.what = what

\* C25: when the EC2 instance-type drill-down of a (date, region) succeeds and
\* returns at least one group, the report has the 'EC2 Instance Type Breakdown'
\* table for that date and region and no 'Could not retrieve EC2 instance type
\* breakdown' note.
C25_Ec2BreakdownShown ==
    \A k \in 1..Len(drills) :
        (drills[k].service = EC2Compute /\ drills[k].result.t = "df") =>
            /\ HasBreakdown("EC2 Instance Type Breakdown", drills[k].date, drills[k].reg)
            /\ ~HasNote("EC2 instance type breakdown", drills[k].date, drills[k].reg)

\* C26: the two SageMaker drill-downs are independent: when the instance-type
\* drill-down of a (date, region) fails, the usage-type drill-down of that date
\* and region is still issued and, when it returns groups, rendered.
C26_UsageDrillAfterInstanceFailure ==
    pc = "idle" =>
        \A k \in 1..Len(drills) :
            (/\ drills[k].service = SageMaker
             /\ drills[k].key = "INSTANCE_TYPE"
             /\ DrillFailed(k)) =>
                \E j \in 1..Len(drills) :
                    /\ drills[j].service = SageMaker /\ drills[j].key = "USAGE_TYPE"
                    /\ drills[j].date = drills[k].date /\ drills[j].reg = drills[k].reg
                    /\ drills[j].result.t = "df" =>
                          HasBreakdown("SageMaker Usage Type Breakdown",
                                       drills[k].date, drills[k].reg)

HasChar(s, ch) == \E i \in 1..Len(s) : s[i] = ch

\* C27 (as stated): the shortening is idempotent: applied to the label it
\* returned for an identifier, it returns that label again.
C27_ShortenIdempotent ==
    short_again # NoLabel => short_again = short_id

\* C27 (amended): the shortening applied to the label it returned gives that
\* label again exactly when the label has no '/' (an identifier with a '.'
\* whose last '.' has a '/' after it is shortened once more); what the second
\* application returns has neither '.' nor '/'.
C27_ShortenTwice ==
    short_again # NoLabel =>
        /\ short_again = short_id <=> ~HasChar(short_id, "/")
        /\ ~HasChar(short_again, ".") /\ ~HasChar(short_again, "/")

\* an identifier with a '/' after its last '.' has been shortened twice
C27_Witness ==
    /\ short_again # NoLabel
    /\ \E i, j \in 1..Len(model_id) :
          /\ i < j /\ model_id[i] = "." /\ model_id[j] = "/"
          /\ \A k \in (i + 1)..Len(model_id) : model_id[k] # "."

\* C28: in the per-model summary of the daily and of the hourly report each
\* displayed model label is the label of at most one row: the records of two
\* identifiers with the same shortened form are in one row.
C28_OneRowPerLabel ==
    report.kind \in {"daily", "hourly"} =>
        \A n \in 1..Len(report.sections) :
            report.sections[n].dims = <<"modelId">> =>
                \A r1, r2 \in 1..Len(report.sections[n].rows) :
                    report.sections[n].rows[r1].key = report.sections[n].rows[r2].key
                        => r1 = r2

====
